---- MODULE Spec2Model ----
(***************************************************************************)
(* The three byte-buffer codecs of DC_PORTAL (Huffman, RLE, LZ77) as pure  *)
(* operators over sequences of bytes, and one state machine per codec that *)
(* draws a buffer, calls compress and decompress on it and records what    *)
(* each call returned or threw.                                            *)
(*                                                                         *)
(* A Buffer is a sequence of integers 0..255 (1-based here, 0-based in the *)
(* source: bytes[i] of the source is bytes[i + 1] here).  A call's outcome *)
(* is a record: Return(data) when the call returns, Throw(msg) when it     *)
(* throws.                                                                 *)
(***************************************************************************)
EXTENDS Integers, Sequences, FiniteSets, TLC

VARIABLES codec, input, pc, container, output, cursor, treeNode

vars == <<codec, input, pc, container, output, cursor, treeNode>>

(***************************************************************************)
(* Bounds of the model.                                                    *)
(***************************************************************************)
MaxHuffmanLen == 5
MaxRuns == 3
MaxLZLen == 4
MaxPieces == 3

(***************************************************************************)
(* Outcomes of a call.                                                     *)
(***************************************************************************)
Return(d) == [ok |-> TRUE, data |-> d, error |-> ""]
Throw(msg) == [ok |-> FALSE, data |-> <<>>, error |-> msg]
NotCalled == [ok |-> FALSE, data |-> <<>>, error |-> "not called"]

Min(a, b) == IF a < b THEN a ELSE b
Max(a, b) == IF a > b THEN a ELSE b

\* buffer.slice(from, to) with 0-based from (inclusive) and to (exclusive),
\* both clamped to the buffer as Buffer.prototype.slice does.
Slice(buffer, from, to) ==
  SubSeq(buffer, Min(from, Len(buffer)) + 1, Min(to, Len(buffer)))

\* (b0 << 24) | (b1 << 16) | (b2 << 8) | b3 in JavaScript: the result of | is
\* a SIGNED 32-bit integer, so a first byte >= 128 gives a negative value.
Int32BE(b0, b1, b2, b3) ==
  (IF b0 >= 128 THEN b0 - 256 ELSE b0) * 16777216 + b1 * 65536 + b2 * 256 + b3

\* The four bytes (n >> 24) & 0xff, (n >> 16) & 0xff, (n >> 8) & 0xff, n & 0xff
\* of a length n >= 0.
BE32Bytes(n) ==
  << (n \div 16777216) % 256, (n \div 65536) % 256, (n \div 256) % 256, n % 256 >>

RECURSIVE SeqsUpTo(_, _)
SeqsUpTo(S, n) ==
  IF n = 0 THEN { <<>> }
  ELSE LET shorter == SeqsUpTo(S, n - 1)
       IN shorter \cup { Append(s, x) : s \in { t \in shorter : Len(t) = n - 1 }, x \in S }

(***************************************************************************)
(* Huffman, binary-container codec (src/unnamed/part_001).                 *)
(***************************************************************************)
NullNode == [tag |-> "null"]
LeafNode(b, f) == [tag |-> "leaf", byte |-> b, freq |-> f]
InternalNode(f, l, r) == [tag |-> "internal", freq |-> f, left |-> l, right |-> r]
\* Nodes rebuilt by readTree carry no freq.
ReadLeaf(b) == [tag |-> "leaf", byte |-> b]
ReadInternal(l, r) == [tag |-> "internal", left |-> l, right |-> r]

\* node.left / node.right; a leaf's children are null.
LeftOf(node) == IF node.tag = "internal" THEN node.left ELSE NullNode
RightOf(node) == IF node.tag = "internal" THEN node.right ELSE NullNode

\* FreqFrom with a byte seen again left at the count 1.
RECURSIVE FreqFromNoIncrement(_, _, _)
FreqFromNoIncrement(buffer, k, freq) ==
  IF k > Len(buffer) THEN freq
  ELSE LET byte == buffer[k]
           at == { e \in 1..Len(freq) : freq[e][1] = byte }
       IN IF at = {}
          THEN FreqFromNoIncrement(buffer, k + 1, Append(freq, <<byte, 1>>))
          ELSE FreqFromNoIncrement(buffer, k + 1, freq)

\* The Map of buildFrequencyTable as the sequence of its entries <<byte, freq>>
\* in insertion order (the order of each byte's first occurrence).
RECURSIVE FreqFrom(_, _, _)
FreqFrom(buffer, k, freq) ==
  IF k > Len(buffer) THEN freq
  ELSE LET byte == buffer[k]
           at == { e \in 1..Len(freq) : freq[e][1] = byte }
       IN IF at = {}
          THEN FreqFrom(buffer, k + 1, Append(freq, <<byte, 1>>))
          ELSE LET e == CHOOSE x \in at : TRUE
               IN FreqFrom(buffer, k + 1, [freq EXCEPT ![e] = <<byte, freq[e][2] + 1>>])

buildFrequencyTable(buffer) == FreqFrom(buffer, 1, <<>>)

\* InsertByFreq with the node put before the nodes of equal freq.
RECURSIVE InsertByFreqBeforeEqual(_, _)
InsertByFreqBeforeEqual(sorted, node) ==
  IF sorted = <<>> THEN <<node>>
  ELSE IF node.freq <= Head(sorted).freq THEN <<node>> \o sorted
  ELSE <<Head(sorted)>> \o InsertByFreqBeforeEqual(Tail(sorted), node)

\* nodes.sort((a, b) => a.freq - b.freq): Array.prototype.sort is stable, so
\* nodes of equal freq keep their order; insertion sort gives that order.
RECURSIVE InsertByFreq(_, _)
InsertByFreq(sorted, node) ==
  IF sorted = <<>> THEN <<node>>
  ELSE IF node.freq < Head(sorted).freq THEN <<node>> \o sorted
  ELSE <<Head(sorted)>> \o InsertByFreq(Tail(sorted), node)

\* node goes after every node of freq <= its own: equal nodes keep their order.
RECURSIVE SortByFreqFrom(_, _, _)
SortByFreqFrom(nodes, k, sorted) ==
  IF k > Len(nodes) THEN sorted
  ELSE SortByFreqFrom(nodes, k + 1, InsertByFreq(sorted, nodes[k]))

\* The sort left out: the nodes in the order they have.
SortByFreqOmitted(nodes) == nodes

SortByFreq(nodes) == SortByFreqFrom(nodes, 1, <<>>)

\* The while loop of buildHuffmanTree: sort, shift twice, push the merged node;
\* then nodes[0], which is undefined (no node) for an empty array.
RECURSIVE MergeNodes(_)
MergeNodes(nodes) ==
  IF Len(nodes) > 1
  THEN LET sorted == SortByFreq(nodes)
           left == sorted[1]
           right == sorted[2]
       IN MergeNodes(Append(SubSeq(sorted, 3, Len(sorted)),
                            InternalNode(left.freq + right.freq, left, right)))
  ELSE IF Len(nodes) = 0 THEN NullNode
  ELSE nodes[1]

buildHuffmanTree(freqMap) ==
  LET nodes == [e \in 1..Len(freqMap) |-> LeafNode(freqMap[e][1], freqMap[e][2])]
  IN IF Len(nodes) = 1
     THEN InternalNode(nodes[1].freq, nodes[1], NullNode)
     ELSE MergeNodes(nodes)

\* The Map of generateCodes as the set of its entries <<byte, code>>, a code
\* being a sequence of bits; prefix || '0' gives a leaf reached with the empty
\* prefix the code "0".
\* generateCodes with the left branch's prefix + '0' forgotten.
RECURSIVE generateCodesLeftUnmarked(_, _)
generateCodesLeftUnmarked(node, prefix) ==
  IF node.tag = "null" THEN {}
  ELSE IF node.tag = "leaf"
  THEN { <<node.byte, IF prefix = <<>> THEN <<0>> ELSE prefix>> }
  ELSE generateCodesLeftUnmarked(node.left, prefix)
         \cup generateCodesLeftUnmarked(node.right, Append(prefix, 1))

RECURSIVE generateCodes(_, _)
generateCodes(node, prefix) ==
  IF node.tag = "null" THEN {}
  ELSE IF node.tag = "leaf"
  THEN { <<node.byte, IF prefix = <<>> THEN <<0>> ELSE prefix>> }
  ELSE generateCodes(node.left, Append(prefix, 0))
         \cup generateCodes(node.right, Append(prefix, 1))

\* codes.get(byte): the code of byte, <<>> (undefined) when it has none.
CodeOf(codes, byte) ==
  LET hits == { e \in codes : e[1] = byte }
  IN IF hits = {} THEN <<>> ELSE (CHOOSE e \in hits : TRUE)[2]

\* writeTree with a leaf written as its byte alone, without the marker.
RECURSIVE writeTreeLeafUnmarked(_)
writeTreeLeafUnmarked(node) ==
  IF node.tag = "null" THEN <<>>
  ELSE IF node.tag = "leaf" THEN <<node.byte>>
  ELSE <<0>> \o writeTreeLeafUnmarked(node.left) \o writeTreeLeafUnmarked(node.right)

RECURSIVE writeTree(_)
writeTree(node) ==
  IF node.tag = "null" THEN <<>>
  ELSE IF node.tag = "leaf" THEN <<1, node.byte>>
  ELSE <<0>> \o writeTree(node.left) \o writeTree(node.right)

\* readTree(bytes, index) with index.i = i: the node read and the index after
\* it, or the error thrown.
RECURSIVE readTree(_, _)
readTree(bytes, i) ==
  IF i >= Len(bytes)
  THEN [ok |-> FALSE, error |-> "Unexpected end of Huffman tree data."]
  ELSE LET flag == bytes[i + 1]
       IN IF flag = 1
          THEN IF i + 1 >= Len(bytes)
               THEN [ok |-> FALSE, error |-> "Incomplete leaf node in Huffman tree."]
               ELSE [ok |-> TRUE, node |-> ReadLeaf(bytes[i + 2]), i |-> i + 2]
          ELSE IF flag = 0
          THEN LET left == readTree(bytes, i + 1)
               IN IF ~left.ok THEN left
                  ELSE LET right == readTree(bytes, left.i)
                       IN IF ~right.ok THEN right
                          ELSE [ok |-> TRUE, node |-> ReadInternal(left.node, right.node),
                                i |-> right.i]
          ELSE [ok |-> FALSE, error |-> "Invalid tree flag value"]

\* parseInt(bits, 2) of eight bits, and byte.toString(2).padStart(8, '0').
BitsToByte(bits) ==
  bits[1] * 128 + bits[2] * 64 + bits[3] * 32 + bits[4] * 16
    + bits[5] * 8 + bits[6] * 4 + bits[7] * 2 + bits[8]

ByteToBits(byte) ==
  << (byte \div 128) % 2, (byte \div 64) % 2, (byte \div 32) % 2, (byte \div 16) % 2,
     (byte \div 8) % 2, (byte \div 4) % 2, (byte \div 2) % 2, byte % 2 >>

RECURSIVE EncodeBits(_, _, _)
EncodeBits(buffer, k, codes) ==
  IF k > Len(buffer) THEN <<>>
  ELSE CodeOf(codes, buffer[k]) \o EncodeBits(buffer, k + 1, codes)

RECURSIVE PackBits(_)
PackBits(bitString) ==
  IF bitString = <<>> THEN <<>>
  ELSE <<BitsToByte(SubSeq(bitString, 1, 8))>> \o PackBits(SubSeq(bitString, 9, Len(bitString)))

RECURSIVE UnpackBits(_)
UnpackBits(data) ==
  IF data = <<>> THEN <<>>
  ELSE ByteToBits(Head(data)) \o UnpackBits(Tail(data))

\* HuffmanPadding without the outer % 8.
HuffmanPaddingFullByte(bitLength) == 8 - (bitLength % 8)

HuffmanPadding(bitLength) == (8 - (bitLength % 8)) % 8

Zeros(n) == [k \in 1..n |-> 0]

\* The tree and the code map compressHuffman builds for buffer.
HuffmanTreeOf(buffer) == buildHuffmanTree(buildFrequencyTable(buffer))

HuffmanCodesOf(buffer) == generateCodes(HuffmanTreeOf(buffer), <<>>)

compressHuffman(buffer) ==
  IF Len(buffer) = 0 THEN Throw("Cannot compress empty input")
  ELSE LET tree == HuffmanTreeOf(buffer)
           codes == HuffmanCodesOf(buffer)
           bitString == EncodeBits(buffer, 1, codes)
           padding == HuffmanPadding(Len(bitString))
           dataBytes == PackBits(bitString \o Zeros(padding))
           treeBytes == writeTree(tree)
           header == <<padding, (Len(treeBytes) \div 256) % 256, Len(treeBytes) % 256>>
                       \o BE32Bytes(Len(buffer))
       IN IF \E k \in 1..Len(buffer) : CodeOf(codes, buffer[k]) = <<>>
          THEN Throw("No Huffman code found for byte")
          ELSE IF Len(treeBytes) > 65535 THEN Throw("Huffman tree too large to encode")
          ELSE Return(header \o treeBytes \o dataBytes)

isValidHuffmanFile(buffer) ==
  IF Len(buffer) < 7 THEN FALSE
  ELSE LET padding == buffer[1]
           treeSize == buffer[2] * 256 + buffer[3]
       IN IF padding > 7 \/ treeSize = 0 \/ treeSize > 65535 THEN FALSE
          ELSE IF 7 + treeSize >= Len(buffer) THEN FALSE
          ELSE readTree(Slice(buffer, 7, 7 + treeSize), 0).ok

\* HuffmanDecodeBit with a null child sending the cursor back to the root
\* instead of throwing.
HuffmanDecodeBitNullRestarts(tree, node, bit, output_, originalSize) ==
  LET next == IF bit = 0 THEN LeftOf(node) ELSE RightOf(node)
  IN IF next.tag = "null"
     THEN [ok |-> TRUE, data |-> output_, node |-> tree, done |-> FALSE]
     ELSE IF next.tag = "leaf"
     THEN LET out == Append(output_, next.byte)
          IN [ok |-> TRUE, data |-> out, node |-> tree, done |-> Len(out) = originalSize]
     ELSE [ok |-> TRUE, data |-> output_, node |-> next, done |-> FALSE]

\* The body of the decode loop of performActualDecompression on one bit, the
\* cursor at node: the throw, or the output and the cursor after it, with
\* done set when the loop breaks.
HuffmanDecodeBit(tree, node, bit, output_, originalSize) ==
  LET next == IF bit = 0 THEN LeftOf(node) ELSE RightOf(node)
  IN IF next.tag = "null"
     THEN Throw("Huffman tree traversal error: reached null node")
     ELSE IF next.tag = "leaf"
     THEN LET out == Append(output_, next.byte)
          IN [ok |-> TRUE, data |-> out, node |-> tree, done |-> Len(out) = originalSize]
     ELSE [ok |-> TRUE, data |-> output_, node |-> next, done |-> FALSE]

\* The decode loop of performActualDecompression from bit k on, the cursor at
\* node and output decoded so far.
RECURSIVE HuffmanDecodeFrom(_, _, _, _, _, _)
HuffmanDecodeFrom(bitString, k, tree, node, output_, originalSize) ==
  IF k > Len(bitString) THEN Return(output_)
  ELSE LET step == HuffmanDecodeBit(tree, node, bitString[k], output_, originalSize)
       IN IF ~step.ok THEN step
          ELSE IF step.done THEN Return(step.data)
          ELSE HuffmanDecodeFrom(bitString, k + 1, tree, step.node, step.data, originalSize)

\* What performActualDecompression reads from the container before the loop.
HuffmanOriginalSize(buffer) == Int32BE(buffer[4], buffer[5], buffer[6], buffer[7])
HuffmanTreeSize(buffer) == buffer[2] * 256 + buffer[3]
HuffmanTreeRead(buffer) == readTree(Slice(buffer, 7, 7 + HuffmanTreeSize(buffer)), 0)
HuffmanData(buffer) == Slice(buffer, 7 + HuffmanTreeSize(buffer), Len(buffer))
HuffmanBitString(buffer) ==
  LET padding == buffer[1]
      allBits == UnpackBits(HuffmanData(buffer))
  IN IF padding > 0 THEN SubSeq(allBits, 1, Len(allBits) - padding) ELSE allBits

performActualDecompressionHuffman(buffer) ==
  LET originalSize == HuffmanOriginalSize(buffer)
      tree == HuffmanTreeRead(buffer)
      data == HuffmanData(buffer)
      bitString == HuffmanBitString(buffer)
  IN IF ~tree.ok THEN Throw("Failed to read Huffman tree")
     ELSE IF Len(data) = 0 THEN Throw("No compressed data found in file")
     ELSE HuffmanDecodeFrom(bitString, 1, tree.node, tree.node, <<>>, originalSize)

decompressHuffman(buffer) ==
  IF ~isValidHuffmanFile(buffer)
  THEN LET compressionResult == compressHuffman(buffer)
       IN IF ~compressionResult.ok THEN compressionResult ELSE Return(buffer)
  ELSE performActualDecompressionHuffman(buffer)

(***************************************************************************)
(* The Huffman machine: a buffer is drawn, then either compressed and the  *)
(* container decompressed, or handed to decompressHuffman as it is.        *)
(***************************************************************************)
HuffmanAlphabet == {1, 65, 66, 67}

HuffmanInputs == SeqsUpTo(HuffmanAlphabet, MaxHuffmanLen)

\* Buffers handed to decompressHuffman that no compressHuffman call made:
\* truncated headers, and headers followed by tree bytes and payload bytes.
HuffmanHeaderPrefixes == { SubSeq(<<0, 0, 2, 0, 0, 0, 1>>, 1, n) : n \in 0..7 }

HuffmanTreeChoices ==
  { <<1, 65>>, <<0, 1, 65>>, <<0, 1, 65, 1, 66>>, <<2, 65>>, <<0, 0, 1>> }

HuffmanDataChoices == { <<>>, <<0>>, <<128>>, <<64, 0>> }

HuffmanBuffers ==
  HuffmanHeaderPrefixes \cup
  { <<p, 0, ts, hi, 0, 0, lo>> \o t \o d :
      p \in {0, 3, 7, 8}, ts \in {0, 2, 3, 5}, hi \in {0, 128}, lo \in {0, 1, 2},
      t \in HuffmanTreeChoices, d \in HuffmanDataChoices }

\* "AAAAAABBBCCD".
HuffmanScenarios == { <<65, 65, 65, 65, 65, 65, 66, 66, 66, 67, 67, 68>> }

InitHuffman ==
  /\ codec = "huffman"
  /\ input \in HuffmanInputs \cup HuffmanScenarios \cup HuffmanBuffers
  /\ pc = "init"
  /\ container = NotCalled
  /\ output = NotCalled
  /\ cursor = 0
  /\ treeNode = NullNode

CompressHuffman ==
  /\ codec = "huffman"
  /\ pc = "init"
  /\ container' = compressHuffman(input)
  /\ pc' = "compressed"
  /\ UNCHANGED <<codec, input, output, cursor, treeNode>>

\* decompressHuffman(compressHuffman(input).data)
DecompressHuffmanContainer ==
  /\ codec = "huffman"
  /\ pc = "compressed"
  /\ container.ok
  /\ output' = decompressHuffman(container.data)
  /\ pc' = "roundtrip"
  /\ UNCHANGED <<codec, input, container, cursor, treeNode>>

\* decompressHuffman(input)
DecompressHuffman ==
  /\ codec = "huffman"
  /\ pc = "init"
  /\ output' = decompressHuffman(input)
  /\ pc' = "decompressed"
  /\ UNCHANGED <<codec, input, container, cursor, treeNode>>

\* decompressHuffman(input) on a buffer the sniffer accepts, one payload bit at
\* a time: cursor is the number of bits consumed, treeNode the tree cursor,
\* output.data the output array so far.
BeginDecodeHuffman ==
  /\ codec = "huffman"
  /\ pc = "init"
  /\ isValidHuffmanFile(input)
  /\ cursor' = 0
  /\ IF ~HuffmanTreeRead(input).ok
     THEN /\ output' = Throw("Failed to read Huffman tree")
          /\ pc' = "decoded"
          /\ treeNode' = treeNode
     ELSE IF Len(HuffmanData(input)) = 0
     THEN /\ output' = Throw("No compressed data found in file")
          /\ pc' = "decoded"
          /\ treeNode' = treeNode
     ELSE /\ output' = Return(<<>>)
          /\ pc' = "decoding"
          /\ treeNode' = HuffmanTreeRead(input).node
  /\ UNCHANGED <<codec, input, container>>

DecodeBitHuffman ==
  /\ codec = "huffman"
  /\ pc = "decoding"
  /\ cursor < Len(HuffmanBitString(input))
  /\ LET step == HuffmanDecodeBit(HuffmanTreeRead(input).node, treeNode,
                                  HuffmanBitString(input)[cursor + 1], output.data,
                                  HuffmanOriginalSize(input))
     IN IF step.ok
        THEN /\ output' = Return(step.data)
             /\ treeNode' = step.node
             /\ cursor' = cursor + 1
             /\ pc' = IF step.done THEN "decoded" ELSE "decoding"
        ELSE /\ output' = step
             /\ treeNode' = treeNode
             /\ cursor' = cursor
             /\ pc' = "decoded"
  /\ UNCHANGED <<codec, input, container>>

\* EndDecodeHuffman with an output length other than originalSize thrown
\* instead of logged.
EndDecodeHuffmanMismatchFatal ==
  /\ codec = "huffman"
  /\ pc = "decoding"
  /\ cursor >= Len(HuffmanBitString(input))
  /\ pc' = "decoded"
  /\ output' = IF Len(output.data) # HuffmanOriginalSize(input)
               THEN Throw("Size mismatch") ELSE output
  /\ UNCHANGED <<codec, input, container, cursor, treeNode>>

\* The bits are used up: the output array is returned as a buffer, whatever
\* its length (a length other than originalSize is only logged).
EndDecodeHuffman ==
  /\ codec = "huffman"
  /\ pc = "decoding"
  /\ cursor >= Len(HuffmanBitString(input))
  /\ pc' = "decoded"
  /\ UNCHANGED <<codec, input, container, output, cursor, treeNode>>

NextHuffman ==
  \/ CompressHuffman
  \/ DecompressHuffmanContainer
  \/ DecompressHuffman
  \/ BeginDecodeHuffman
  \/ DecodeBitHuffman
  \/ EndDecodeHuffman

SpecHuffman == InitHuffman /\ [][NextHuffman]_vars

(***************************************************************************)
(* RLE, escape-sequence codec (src/backend/algorithms/rle.js).             *)
(***************************************************************************)
MAX_RUN_LENGTH == 255
MIN_RUN_LENGTH == 3
ESCAPE_BYTE == 255
RLE_MARKER == 225
MaxOriginalSize == 104857600

\* RunContinues with runs capped one byte short of MAX_RUN_LENGTH.
RunContinuesCapShort(buffer, position, runLength) ==
  /\ position + runLength < Len(buffer)
  /\ buffer[position + runLength + 1] = buffer[position + 1]
  /\ runLength < MAX_RUN_LENGTH - 1

\* The condition of the inner while loop of compressRLE with the run counted
\* to runLength so far.
RunContinues(buffer, position, runLength) ==
  /\ position + runLength < Len(buffer)
  /\ buffer[position + runLength + 1] = buffer[position + 1]
  /\ runLength < MAX_RUN_LENGTH

\* The inner while loop of compressRLE at 0-based position: runLength starts
\* at 1 and grows while the loop condition holds, so it ends at the first
\* value at which the condition fails.
CountRun(buffer, position) ==
  CHOOSE runLength \in 1..MAX_RUN_LENGTH :
    /\ ~RunContinues(buffer, position, runLength)
    /\ \A shorter \in 1..(runLength - 1) : RunContinues(buffer, position, shorter)

\* ShortRunBytes with the escape byte written raw, like any other literal.
RECURSIVE ShortRunBytesUnescaped(_, _, _, _)
ShortRunBytesUnescaped(buffer, position, i, runLength) ==
  IF i >= runLength THEN <<>>
  ELSE <<buffer[position + i + 1]>> \o ShortRunBytesUnescaped(buffer, position, i + 1, runLength)

\* The for loop over a short run: each byte raw, or escaped when it is the
\* escape byte.
RECURSIVE ShortRunBytes(_, _, _, _)
ShortRunBytes(buffer, position, i, runLength) ==
  IF i >= runLength THEN <<>>
  ELSE LET byte == buffer[position + i + 1]
       IN (IF byte = ESCAPE_BYTE THEN <<ESCAPE_BYTE, ESCAPE_BYTE, 1>> ELSE <<byte>>)
            \o ShortRunBytes(buffer, position, i + 1, runLength)

\* RLETokensFrom with runs of 2 bytes encoded as run tokens as well.
RECURSIVE RLETokensFromRunsOfTwo(_, _)
RLETokensFromRunsOfTwo(buffer, position) ==
  IF position >= Len(buffer) THEN <<>>
  ELSE LET currentByte == buffer[position + 1]
           runLength == CountRun(buffer, position)
       IN (IF runLength >= MIN_RUN_LENGTH - 1
           THEN <<ESCAPE_BYTE, currentByte, runLength>>
           ELSE ShortRunBytes(buffer, position, 0, runLength))
            \o RLETokensFromRunsOfTwo(buffer, position + runLength)

\* The outer while loop of compressRLE from 0-based position on.
RECURSIVE RLETokensFrom(_, _)
RLETokensFrom(buffer, position) ==
  IF position >= Len(buffer) THEN <<>>
  ELSE LET currentByte == buffer[position + 1]
           runLength == CountRun(buffer, position)
       IN (IF runLength >= MIN_RUN_LENGTH
           THEN <<ESCAPE_BYTE, currentByte, runLength>>
           ELSE ShortRunBytes(buffer, position, 0, runLength))
            \o RLETokensFrom(buffer, position + runLength)

\* compressRLE without its check for an empty buffer.
compressRLENoEmptyCheck(buffer) ==
  Return(BE32Bytes(Len(buffer)) \o <<RLE_MARKER, ESCAPE_BYTE>> \o RLETokensFrom(buffer, 0))

compressRLE(buffer) ==
  IF Len(buffer) = 0 THEN Throw("Cannot compress empty input")
  ELSE Return(BE32Bytes(Len(buffer)) \o <<RLE_MARKER, ESCAPE_BYTE>>
                \o RLETokensFrom(buffer, 0))

isValidRLEFile(buffer) ==
  IF Len(buffer) < 6 THEN FALSE
  ELSE IF buffer[5] # RLE_MARKER THEN FALSE
  ELSE LET originalSize == Int32BE(buffer[1], buffer[2], buffer[3], buffer[4])
           escapeByteUsed == buffer[6]
       IN IF originalSize = 0 \/ originalSize > MaxOriginalSize THEN FALSE
          ELSE IF Len(buffer) < 7 THEN FALSE
          ELSE IF escapeByteUsed < 0 \/ escapeByteUsed > 255 THEN FALSE
          ELSE TRUE

\* RunCopies without the stop at originalSize bytes.
RunCopiesUncapped(output_, dataByte, runLength, originalSize) ==
  [k \in 1..runLength |-> dataByte]

\* The for loop that adds a run: runLength copies of dataByte, stopping when
\* the output has originalSize bytes.
RunCopies(output_, dataByte, runLength, originalSize) ==
  [k \in 1..Max(0, Min(runLength, originalSize - Len(output_))) |-> dataByte]

\* RLEDecodeToken with the escape byte fixed at ESCAPE_BYTE, whatever the
\* header says.
RLEDecodeTokenFixedEscape(compressed, position, output_, originalSize, escapeByteUsed) ==
  LET currentByte == compressed[position + 1]
  IN IF currentByte = ESCAPE_BYTE
     THEN IF position + 2 >= Len(compressed)
          THEN Throw("Incomplete RLE escape sequence")
          ELSE LET dataByte == compressed[position + 2]
                   runLength == compressed[position + 3]
               IN IF runLength = 0 THEN Throw("Invalid RLE run length: 0")
                  ELSE IF runLength > MAX_RUN_LENGTH
                  THEN Throw("Invalid RLE run length")
                  ELSE [ok |-> TRUE,
                        data |-> output_ \o RunCopies(output_, dataByte, runLength, originalSize),
                        position |-> position + 3]
     ELSE [ok |-> TRUE, data |-> Append(output_, currentByte), position |-> position + 1]

\* RLEDecodeToken with a run length of 0 taken as a run of no bytes.
RLEDecodeTokenZeroRunAllowed(compressed, position, output_, originalSize, escapeByteUsed) ==
  LET currentByte == compressed[position + 1]
  IN IF currentByte = escapeByteUsed
     THEN IF position + 2 >= Len(compressed)
          THEN Throw("Incomplete RLE escape sequence")
          ELSE LET dataByte == compressed[position + 2]
                   runLength == compressed[position + 3]
               IN IF runLength > MAX_RUN_LENGTH
                  THEN Throw("Invalid RLE run length")
                  ELSE [ok |-> TRUE,
                        data |-> output_ \o RunCopies(output_, dataByte, runLength, originalSize),
                        position |-> position + 3]
     ELSE [ok |-> TRUE, data |-> Append(output_, currentByte), position |-> position + 1]

\* One pass through the body of the while loop of performActualDecompression
\* at 0-based position: the throw, or the output and the position after it.
RLEDecodeToken(compressed, position, output_, originalSize, escapeByteUsed) ==
  LET currentByte == compressed[position + 1]
  IN IF currentByte = escapeByteUsed
     THEN IF position + 2 >= Len(compressed)
          THEN Throw("Incomplete RLE escape sequence")
          ELSE LET dataByte == compressed[position + 2]
                   runLength == compressed[position + 3]
               IN IF runLength = 0 THEN Throw("Invalid RLE run length: 0")
                  ELSE IF runLength > MAX_RUN_LENGTH
                  THEN Throw("Invalid RLE run length")
                  ELSE [ok |-> TRUE,
                        data |-> output_ \o RunCopies(output_, dataByte, runLength, originalSize),
                        position |-> position + 3]
     ELSE [ok |-> TRUE, data |-> Append(output_, currentByte), position |-> position + 1]

\* The condition of the while loop of performActualDecompression.
RLEDecodeContinues(compressed, position, output_, originalSize) ==
  position < Len(compressed) /\ Len(output_) < originalSize

\* The while loop of performActualDecompression from 0-based position on.
RECURSIVE RLEDecodeFrom(_, _, _, _, _)
RLEDecodeFrom(compressed, position, output_, originalSize, escapeByteUsed) ==
  IF ~RLEDecodeContinues(compressed, position, output_, originalSize)
  THEN Return(output_)
  ELSE LET step == RLEDecodeToken(compressed, position, output_, originalSize, escapeByteUsed)
       IN IF ~step.ok THEN step
          ELSE RLEDecodeFrom(compressed, step.position, step.data, originalSize,
                             escapeByteUsed)

\* The fields performActualDecompression reads from the container.
RLEOriginalSize(buffer) == Int32BE(buffer[1], buffer[2], buffer[3], buffer[4])
RLEEscapeByteUsed(buffer) == buffer[6]
RLECompressed(buffer) == Slice(buffer, 6, Len(buffer))

performActualDecompressionRLE(buffer) ==
  LET originalSize == RLEOriginalSize(buffer)
      escapeByteUsed == RLEEscapeByteUsed(buffer)
      compressed == RLECompressed(buffer)
  IN RLEDecodeFrom(compressed, 0, <<>>, originalSize, escapeByteUsed)

decompressRLE(buffer) ==
  IF ~isValidRLEFile(buffer) THEN Return(buffer)
  ELSE performActualDecompressionRLE(buffer)

(***************************************************************************)
(* The RLE machine.                                                        *)
(***************************************************************************)
RLERunBytes == {7, 255}
RLERunLengths == {1, 2, 3, 255, 256}
RLERunChoices == { [k \in 1..n |-> b] : b \in RLERunBytes, n \in RLERunLengths }

RECURSIVE Flatten(_)
Flatten(seqs) == IF seqs = <<>> THEN <<>> ELSE Head(seqs) \o Flatten(Tail(seqs))

\* Buffers made of up to MaxRuns runs, short ones and ones around the 255 cap.
RLEInputs == { Flatten(runs) : runs \in SeqsUpTo(RLERunChoices, MaxRuns) }

RLEHeaderPrefixes == { SubSeq(<<0, 0, 0, 1, 225, 255>>, 1, n) : n \in 0..6 }

RLEPayloadChoices ==
  { <<>>, <<7>>, <<7, 255>>, <<255, 7>>, <<255, 7, 0>>, <<255, 7, 3>>, <<7, 255, 7, 0>>,
    <<9, 7, 3, 255, 255, 1>> }

\* Buffers handed to decompressRLE that no compressRLE call made.
RLEBuffers ==
  RLEHeaderPrefixes \cup
  { <<b0, b1, 0, b3, m, e>> \o d :
      b0 \in {0, 6, 128, 255}, b1 \in {0, 64}, b3 \in {0, 1, 4},
      m \in {RLE_MARKER, 0}, e \in {ESCAPE_BYTE, 9}, d \in RLEPayloadChoices }

InitRLE ==
  /\ codec = "rle"
  /\ input \in RLEInputs \cup RLEBuffers
  /\ pc = "init"
  /\ container = NotCalled
  /\ output = NotCalled
  /\ cursor = 0
  /\ treeNode = NullNode

CompressRLE ==
  /\ codec = "rle"
  /\ pc = "init"
  /\ container' = compressRLE(input)
  /\ pc' = "compressed"
  /\ UNCHANGED <<codec, input, output, cursor, treeNode>>

\* decompressRLE(compressRLE(input).data)
DecompressRLEContainer ==
  /\ codec = "rle"
  /\ pc = "compressed"
  /\ container.ok
  /\ output' = decompressRLE(container.data)
  /\ pc' = "roundtrip"
  /\ UNCHANGED <<codec, input, container, cursor, treeNode>>

\* decompressRLE(input)
DecompressRLE ==
  /\ codec = "rle"
  /\ pc = "init"
  /\ output' = decompressRLE(input)
  /\ pc' = "decompressed"
  /\ UNCHANGED <<codec, input, container, cursor, treeNode>>

\* decompressRLE(input) on a buffer the sniffer accepts, one pass of the decode
\* loop at a time: cursor is position, output.data the output array so far.
BeginDecodeRLE ==
  /\ codec = "rle"
  /\ pc = "init"
  /\ isValidRLEFile(input)
  /\ pc' = "decoding"
  /\ cursor' = 0
  /\ output' = Return(<<>>)
  /\ UNCHANGED <<codec, input, container, treeNode>>

DecodeTokenRLE ==
  /\ codec = "rle"
  /\ pc = "decoding"
  /\ RLEDecodeContinues(RLECompressed(input), cursor, output.data, RLEOriginalSize(input))
  /\ LET step == RLEDecodeToken(RLECompressed(input), cursor, output.data,
                                RLEOriginalSize(input), RLEEscapeByteUsed(input))
     IN IF step.ok
        THEN /\ output' = Return(step.data)
             /\ cursor' = step.position
             /\ pc' = "decoding"
        ELSE /\ output' = step
             /\ cursor' = cursor
             /\ pc' = "decoded"
  /\ UNCHANGED <<codec, input, container, treeNode>>

\* The loop condition fails: the output array is returned as a buffer, whatever
\* its length (a length other than originalSize is only logged).
EndDecodeRLE ==
  /\ codec = "rle"
  /\ pc = "decoding"
  /\ ~RLEDecodeContinues(RLECompressed(input), cursor, output.data, RLEOriginalSize(input))
  /\ pc' = "decoded"
  /\ UNCHANGED <<codec, input, container, output, cursor, treeNode>>

NextRLE ==
  \/ CompressRLE
  \/ DecompressRLEContainer
  \/ DecompressRLE
  \/ BeginDecodeRLE
  \/ DecodeTokenRLE
  \/ EndDecodeRLE

SpecRLE == InitRLE /\ [][NextRLE]_vars

(***************************************************************************)
(* LZ77 (src/backend/algorithms/lz77.js).  The codec works on the "binary" *)
(* (latin1) string of the buffer: one character per byte, the character's  *)
(* code being the byte.  A string is the sequence of its character codes.  *)
(***************************************************************************)
windowSize == 2048
lookaheadSize == 32
snifferMaxDistance == 2048
snifferMaxLength == 32
CharLT == 60
CharGT == 62
CharComma == 44
CharZero == 48

\* buffer.toString("binary"): byte b becomes the character of code b.
BinaryString(buffer) == [k \in 1..Len(buffer) |-> buffer[k]]

\* Buffer.from(string, "binary"): each character's code, cut to a byte.
BinaryBuffer(string) == [k \in 1..Len(string) |-> string[k] % 256]

\* input.substring(from, to), 0-based, to exclusive, for 0 <= from <= to.
Substring(string, from, to) == SubSeq(string, from + 1, Min(to, Len(string)))

\* `${n}` of an integer n >= 0: its decimal digits.
RECURSIVE DecimalDigits(_)
DecimalDigits(n) ==
  IF n < 10 THEN <<CharZero + n>>
  ELSE Append(DecimalDigits(n \div 10), CharZero + (n % 10))

IsDigit(c) == c >= CharZero /\ c <= CharZero + 9

\* parseInt(digits, 10) of a non-empty string of decimal digits.
RECURSIVE ParseInt(_)
ParseInt(digits) ==
  IF Len(digits) = 1 THEN digits[1] - CharZero
  ELSE ParseInt(SubSeq(digits, 1, Len(digits) - 1)) * 10 + (digits[Len(digits)] - CharZero)

\* The inner while loop of compressLZ77: the length of the match of lookahead
\* against searchBuffer from offset j, counted from length on.  Reading
\* searchBuffer past its end gives undefined, which equals no character.
\* MatchLengthAt with the match running on past the end of searchBuffer into
\* the lookahead itself.
RECURSIVE MatchLengthAtIntoLookahead(_, _, _, _)
MatchLengthAtIntoLookahead(searchBuffer, lookahead, j, length) ==
  IF /\ length < Len(lookahead)
     /\ (searchBuffer \o lookahead)[j + length + 1] = lookahead[length + 1]
  THEN MatchLengthAtIntoLookahead(searchBuffer, lookahead, j, length + 1)
  ELSE length

\* MatchLengthAt with matches cut at 2 bytes.
RECURSIVE MatchLengthAtCutAtTwo(_, _, _, _)
MatchLengthAtCutAtTwo(searchBuffer, lookahead, j, length) ==
  IF /\ length < Min(Len(lookahead), 2)
     /\ j + length < Len(searchBuffer)
     /\ searchBuffer[j + length + 1] = lookahead[length + 1]
  THEN MatchLengthAtCutAtTwo(searchBuffer, lookahead, j, length + 1)
  ELSE length

RECURSIVE MatchLengthAt(_, _, _, _)
MatchLengthAt(searchBuffer, lookahead, j, length) ==
  IF /\ length < Len(lookahead)
     /\ j + length < Len(searchBuffer)
     /\ searchBuffer[j + length + 1] = lookahead[length + 1]
  THEN MatchLengthAt(searchBuffer, lookahead, j, length + 1)
  ELSE length

\* LongestMatchIn with a match replacing the best so far when as long: the
\* newest of the longest matches wins.
RECURSIVE LongestMatchInLatestWins(_, _, _, _, _)
LongestMatchInLatestWins(searchBuffer, lookahead, lo, hi, best) ==
  IF lo >= hi THEN best
  ELSE IF hi = lo + 1
  THEN LET length == MatchLengthAt(searchBuffer, lookahead, lo, 0)
       IN IF length >= best.matchLength /\ length > 0
          THEN [matchLength |-> length, matchDistance |-> Len(searchBuffer) - lo]
          ELSE best
  ELSE LET mid == (lo + hi) \div 2
       IN CHOOSE last \in
            { LongestMatchInLatestWins(searchBuffer, lookahead, mid, hi, first) :
                first \in { LongestMatchInLatestWins(searchBuffer, lookahead, lo, mid, best) } } : TRUE

\* The for loop over j of compressLZ77 for j = lo, ..., hi - 1 in that order,
\* starting from the best match so far: a match replaces it only when strictly
\* longer.  The range is walked in two halves, first lo..mid-1 and then
\* mid..hi-1, which visits the same j in the same order and keeps the depth of
\* the evaluation logarithmic in the size of the window; the best match after
\* the first half is a value (the one element of a set) when the second half
\* starts.
RECURSIVE LongestMatchIn(_, _, _, _, _)
LongestMatchIn(searchBuffer, lookahead, lo, hi, best) ==
  IF lo >= hi THEN best
  ELSE IF hi = lo + 1
  THEN LET length == MatchLengthAt(searchBuffer, lookahead, lo, 0)
       IN IF length > best.matchLength
          THEN [matchLength |-> length, matchDistance |-> Len(searchBuffer) - lo]
          ELSE best
  ELSE LET mid == (lo + hi) \div 2
       IN CHOOSE last \in
            { LongestMatchIn(searchBuffer, lookahead, mid, hi, first) :
                first \in { LongestMatchIn(searchBuffer, lookahead, lo, mid, best) } } : TRUE

\* The for loop over j of compressLZ77 from offset j on, with the best match
\* so far.
LongestMatchFrom(searchBuffer, lookahead, j, matchLength, matchDistance) ==
  LongestMatchIn(searchBuffer, lookahead, j, Len(searchBuffer),
                 [matchLength |-> matchLength, matchDistance |-> matchDistance])

\* searchStart with a window one byte short.
SearchStartShortWindow(i) == Max(0, i - windowSize + 1)

\* searchStart of compressLZ77 at 0-based position i.
SearchStart(i) == Max(0, i - windowSize)

\* `<${matchDistance},${matchLength},${nextChar}>`, nextChar a string of one
\* character or none.
TokenText(matchDistance, matchLength, nextChar) ==
  <<CharLT>> \o DecimalDigits(matchDistance) \o <<CharComma>>
    \o DecimalDigits(matchLength) \o <<CharComma>> \o nextChar \o <<CharGT>>

\* LZ77TokenAt with the next character dropped one position early: the token
\* that ends on the last byte but one carries no character.
LZ77TokenAtNextCharShort(string, i) ==
  LET end == Min(i + lookaheadSize, Len(string))
      lookahead == Substring(string, i, end)
      searchStart == SearchStart(i)
      searchBuffer == Substring(string, searchStart, i)
      best == LongestMatchFrom(searchBuffer, lookahead, 0, 0, 0)
      nextChar == IF i + best.matchLength + 1 < Len(string)
                  THEN <<string[i + best.matchLength + 1]>> ELSE <<>>
  IN [matchDistance |-> best.matchDistance,
      matchLength |-> best.matchLength,
      text |-> TokenText(best.matchDistance, best.matchLength, nextChar)]

\* One pass through the body of the while loop of compressLZ77 at 0-based
\* position i: the match found, the character after it and the token pushed.
LZ77TokenAt(string, i) ==
  LET end == Min(i + lookaheadSize, Len(string))
      lookahead == Substring(string, i, end)
      searchStart == SearchStart(i)
      searchBuffer == Substring(string, searchStart, i)
      best == LongestMatchFrom(searchBuffer, lookahead, 0, 0, 0)
      nextChar == IF i + best.matchLength < Len(string)
                  THEN <<string[i + best.matchLength + 1]>> ELSE <<>>
  IN [matchDistance |-> best.matchDistance,
      matchLength |-> best.matchLength,
      text |-> TokenText(best.matchDistance, best.matchLength, nextChar)]

\* The while loop of compressLZ77 from 0-based position i on: the joined
\* token texts.
RECURSIVE LZ77TokensFrom(_, _)
LZ77TokensFrom(string, i) ==
  IF i >= Len(string) THEN <<>>
  ELSE LET token == LZ77TokenAt(string, i)
       IN token.text \o LZ77TokensFrom(string, i + token.matchLength + 1)

compressLZ77(inputBuffer) ==
  Return(BinaryBuffer(LZ77TokensFrom(BinaryString(inputBuffer), 0)))

\* The end (0-based, exclusive) of the longest run of digits from 0-based p.
RECURSIVE DigitsEnd(_, _)
DigitsEnd(string, p) ==
  IF p < Len(string) /\ IsDigit(string[p + 1]) THEN DigitsEnd(string, p + 1) ELSE p

\* /<([0-9]+),([0-9]+),([^>]?)>/ tried at 0-based position p.  [0-9]+ is
\* greedy and must be followed by a comma, so only the longest run of digits
\* can match; [^>]? takes a character other than ">" when ">" follows it, and
\* nothing when ">" is next.
TokenAt(string, p) ==
  LET n == Len(string)
      noMatch == [found |-> FALSE]
  IN IF ~(p < n /\ string[p + 1] = CharLT) THEN noMatch
     ELSE LET d1 == DigitsEnd(string, p + 1)
          IN IF ~(d1 > p + 1 /\ d1 < n /\ string[d1 + 1] = CharComma) THEN noMatch
             ELSE LET d2 == DigitsEnd(string, d1 + 1)
                  IN IF ~(d2 > d1 + 1 /\ d2 < n /\ string[d2 + 1] = CharComma) THEN noMatch
                     ELSE LET q == d2 + 1
                              token(char, end) ==
                                [found |-> TRUE, index |-> p, end |-> end,
                                 distance |-> ParseInt(Substring(string, p + 1, d1)),
                                 length |-> ParseInt(Substring(string, d1 + 1, d2)),
                                 char |-> char]
                          IN IF q + 1 < n /\ string[q + 1] # CharGT /\ string[q + 2] = CharGT
                             THEN token(<<string[q + 1]>>, q + 2)
                             ELSE IF q < n /\ string[q + 1] = CharGT
                             THEN token(<<>>, q + 1)
                             ELSE noMatch

\* pattern.exec(string) with pattern.lastIndex = lastIndex: the leftmost match
\* at or after lastIndex, or null.
PatternExec(string, lastIndex) ==
  LET starts == { p \in lastIndex..(Len(string) - 1) : TokenAt(string, p).found }
  IN IF starts = {} THEN [found |-> FALSE]
     ELSE TokenAt(string, CHOOSE p \in starts : \A q \in starts : p <= q)

\* SniffLZ77From accepting only when it has counted two matches.
RECURSIVE SniffLZ77FromTwoMatches(_, _, _, _)
SniffLZ77FromTwoMatches(compressed, lastIndex, matchCount, totalLength) ==
  LET match == PatternExec(compressed, lastIndex)
      accept(count, total) == count >= 2 /\ total * 10 > Len(compressed)
  IN IF ~match.found THEN accept(matchCount, totalLength)
     ELSE IF \/ match.distance < 0 \/ match.distance > snifferMaxDistance
             \/ match.length < 0 \/ match.length > snifferMaxLength
     THEN FALSE
     ELSE IF matchCount + 1 >= 2
     THEN accept(matchCount + 1, totalLength + (match.end - match.index))
     ELSE SniffLZ77FromTwoMatches(compressed, match.end, matchCount + 1,
                                  totalLength + (match.end - match.index))

\* The while loop of isValidLZ77File from lastIndex on, and what follows it.
RECURSIVE SniffLZ77From(_, _, _, _)
SniffLZ77From(compressed, lastIndex, matchCount, totalLength) ==
  LET match == PatternExec(compressed, lastIndex)
      accept(count, total) == count > 0 /\ total * 10 > Len(compressed)
  IN IF ~match.found THEN accept(matchCount, totalLength)
     ELSE IF \/ match.distance < 0 \/ match.distance > snifferMaxDistance
             \/ match.length < 0 \/ match.length > snifferMaxLength
     THEN FALSE
     ELSE IF matchCount + 1 >= 2
     THEN accept(matchCount + 1, totalLength + (match.end - match.index))
     ELSE SniffLZ77From(compressed, match.end, matchCount + 1,
                        totalLength + (match.end - match.index))

isValidLZ77File(buffer) == SniffLZ77From(BinaryString(buffer), 0, 0, 0)

\* LZ77CopyFrom with the bound fixed at the output's length before the copy
\* (i characters have been appended since).
RECURSIVE LZ77CopyFromOldLength(_, _, _, _)
LZ77CopyFromOldLength(output_, start, i, length) ==
  IF i >= length THEN Return(output_)
  ELSE IF start + i < 0 \/ start + i >= Len(output_) - i
  THEN Throw("LZ77 reference out of bounds")
  ELSE LZ77CopyFromOldLength(Append(output_, output_[start + i + 1]), start, i + 1, length)

\* The for loop that copies length characters from start on, from the i-th on:
\* the bound is the output's length as it grows.
RECURSIVE LZ77CopyFrom(_, _, _, _)
LZ77CopyFrom(output_, start, i, length) ==
  IF i >= length THEN Return(output_)
  ELSE IF start + i < 0 \/ start + i >= Len(output_)
  THEN Throw("LZ77 reference out of bounds")
  ELSE LZ77CopyFrom(Append(output_, output_[start + i + 1]), start, i + 1, length)

\* The body of the while loop of performActualDecompression: one token.
LZ77DecodeToken(output_, distance, length, char) ==
  IF distance > Len(output_) THEN Throw("Invalid LZ77 distance")
  ELSE LET copied == LZ77CopyFrom(output_, Len(output_) - distance, 0, length)
       IN IF ~copied.ok THEN copied ELSE Return(copied.data \o char)

\* The while loop of performActualDecompression from lastIndex on.
RECURSIVE LZ77DecodeFrom(_, _, _)
LZ77DecodeFrom(compressed, lastIndex, output_) ==
  LET match == PatternExec(compressed, lastIndex)
  IN IF ~match.found THEN Return(BinaryBuffer(output_))
     ELSE LET step == LZ77DecodeToken(output_, match.distance, match.length, match.char)
          IN IF ~step.ok THEN step ELSE LZ77DecodeFrom(compressed, match.end, step.data)

performActualDecompressionLZ77(compressedBuffer) ==
  LZ77DecodeFrom(BinaryString(compressedBuffer), 0, <<>>)

decompressLZ77(compressedBuffer) ==
  IF ~isValidLZ77File(compressedBuffer) THEN Return(compressedBuffer)
  ELSE performActualDecompressionLZ77(compressedBuffer)

(***************************************************************************)
(* The LZ77 machine.  Besides the whole calls, decompressLZ77(input) is    *)
(* also run one token at a time: output holds the characters produced so   *)
(* far and cursor the pattern's lastIndex.                                 *)
(***************************************************************************)
LZ77Alphabet == {65, 66, CharLT, CharGT, CharZero + 1}

LZ77Inputs == SeqsUpTo(LZ77Alphabet, MaxLZLen)

\* Buffers handed to decompressLZ77 that no compressLZ77 call made, each up
\* to MaxPieces pieces: token texts (in and out of the sniffer's ranges, with
\* back-references inside, across and before the output) and other text.
LZ77Pieces ==
  { TokenText(0, 0, <<65>>), TokenText(1, 1, <<66>>), TokenText(1, 2, <<>>),
    TokenText(2, 1, <<65>>), TokenText(0, 1, <<65>>), TokenText(2048, 32, <<>>),
    TokenText(2049, 0, <<65>>), TokenText(0, 33, <<65>>),
    <<65>>, [k \in 1..70 |-> 120] }

LZ77Buffers == { Flatten(pieces) : pieces \in SeqsUpTo(LZ77Pieces, MaxPieces) }

\* "ABABABAB", and the 20 distinct letters "abcdefghijklmnopqrst", which
\* compress to 20 tokens of 7 characters.
LZ77Scenarios == { <<65, 66, 65, 66, 65, 66, 65, 66>>, [k \in 1..20 |-> 96 + k] }

InitLZ77 ==
  /\ codec = "lz77"
  /\ input \in LZ77Inputs \cup LZ77Scenarios \cup LZ77Buffers
  /\ pc = "init"
  /\ container = NotCalled
  /\ output = NotCalled
  /\ cursor = 0
  /\ treeNode = NullNode

\* compressLZ77(input), for the inputs of at most MaxLZLen bytes.
CompressLZ77 ==
  /\ codec = "lz77"
  /\ pc = "init"
  /\ Len(input) <= MaxLZLen \/ input \in LZ77Scenarios
  /\ container' = compressLZ77(input)
  /\ pc' = "compressed"
  /\ UNCHANGED <<codec, input, output, cursor, treeNode>>

\* decompressLZ77(compressLZ77(input))
DecompressLZ77Container ==
  /\ codec = "lz77"
  /\ pc = "compressed"
  /\ container.ok
  /\ output' = decompressLZ77(container.data)
  /\ pc' = "roundtrip"
  /\ UNCHANGED <<codec, input, container, cursor, treeNode>>

\* decompressLZ77(input)
DecompressLZ77 ==
  /\ codec = "lz77"
  /\ pc = "init"
  /\ output' = decompressLZ77(input)
  /\ pc' = "decompressed"
  /\ UNCHANGED <<codec, input, container, cursor, treeNode>>

\* decompressLZ77(input) up to the first pattern.exec of
\* performActualDecompression: the sniffer has accepted the buffer.
BeginDecodeLZ77 ==
  /\ codec = "lz77"
  /\ pc = "init"
  /\ isValidLZ77File(input)
  /\ output' = Return(<<>>)
  /\ cursor' = 0
  /\ pc' = "decoding"
  /\ UNCHANGED <<codec, input, container, treeNode>>

\* One iteration of the while loop of performActualDecompression.
DecodeTokenLZ77 ==
  /\ codec = "lz77"
  /\ pc = "decoding"
  /\ LET match == PatternExec(BinaryString(input), cursor)
     IN /\ match.found
        /\ LET step == LZ77DecodeToken(output.data, match.distance, match.length, match.char)
           IN IF step.ok
              THEN /\ output' = step
                   /\ cursor' = match.end
                   /\ pc' = "decoding"
              ELSE /\ output' = step
                   /\ cursor' = cursor
                   /\ pc' = "decoded"
  /\ UNCHANGED <<codec, input, container, treeNode>>

\* pattern.exec returns null: the loop ends and the output is returned.
EndDecodeLZ77 ==
  /\ codec = "lz77"
  /\ pc = "decoding"
  /\ ~PatternExec(BinaryString(input), cursor).found
  /\ output' = Return(BinaryBuffer(output.data))
  /\ pc' = "decoded"
  /\ UNCHANGED <<codec, input, container, cursor, treeNode>>

NextLZ77 ==
  \/ CompressLZ77 \/ DecompressLZ77Container \/ DecompressLZ77
  \/ BeginDecodeLZ77 \/ DecodeTokenLZ77 \/ EndDecodeLZ77

SpecLZ77 == InitLZ77 /\ [][NextLZ77]_vars

(***************************************************************************)
(* compressLZ77 one token at a time, on short buffers and on buffers longer *)
(* than the window: cursor is i, container.data the tokens pushed so far,  *)
(* joined.                                                                 *)
(***************************************************************************)
\* A buffer longer than the window: "ADEFG", a run of "B" that the compressor
\* leaves at a token boundary, then "ABD".  A token starts at the second "A",
\* windowSize bytes after the first, and the next one at the second "D",
\* windowSize + 1 bytes after the first.
LZ77WindowInputs ==
  { <<65, 68, 69, 70, 71>> \o [k \in 1..(windowSize - 5) |-> 66] \o <<65, 66, 68>> }

InitLZ77Window ==
  /\ codec = "lz77"
  /\ input \in LZ77WindowInputs \cup SeqsUpTo({65, 66}, MaxLZLen)
  /\ pc = "init"
  /\ container = NotCalled
  /\ output = NotCalled
  /\ cursor = 0
  /\ treeNode = NullNode

BeginCompressLZ77 ==
  /\ codec = "lz77"
  /\ pc = "init"
  /\ pc' = "compressing"
  /\ container' = Return(<<>>)
  /\ cursor' = 0
  /\ UNCHANGED <<codec, input, output, treeNode>>

CompressTokenLZ77 ==
  /\ codec = "lz77"
  /\ pc = "compressing"
  /\ cursor < Len(BinaryString(input))
  /\ \E token \in { LZ77TokenAt(BinaryString(input), cursor) } :
       /\ container' = Return(container.data \o token.text)
       /\ cursor' = cursor + token.matchLength + 1
  /\ UNCHANGED <<codec, input, pc, output, treeNode>>

EndCompressLZ77 ==
  /\ codec = "lz77"
  /\ pc = "compressing"
  /\ cursor >= Len(BinaryString(input))
  /\ container' = Return(BinaryBuffer(container.data))
  /\ pc' = "compressed"
  /\ UNCHANGED <<codec, input, output, cursor, treeNode>>

NextLZ77Window == BeginCompressLZ77 \/ CompressTokenLZ77 \/ EndCompressLZ77

SpecLZ77Window == InitLZ77Window /\ [][NextLZ77Window]_vars

(***************************************************************************)
(* The three machines together.                                            *)
(***************************************************************************)
Init == InitHuffman \/ InitRLE \/ InitLZ77

Next == NextHuffman \/ NextRLE \/ NextLZ77

Spec == Init /\ [][Next]_vars

(***************************************************************************)
(* Properties of the Huffman codec.                                        *)
(***************************************************************************)
BytesOf(buffer) == { buffer[k] : k \in 1..Len(buffer) }

IsPrefix(a, b) == Len(a) <= Len(b) /\ SubSeq(b, 1, Len(a)) = a

\* The bytes of a tree's leaves, left to right.
RECURSIVE LeafBytes(_)
LeafBytes(node) ==
  IF node.tag = "null" THEN <<>>
  ELSE IF node.tag = "leaf" THEN <<node.byte>>
  ELSE LeafBytes(node.left) \o LeafBytes(node.right)

\* C1: Huffman round trip.  For every non-empty buffer x, whatever the number
\* of distinct byte values in it, decompressHuffman(compressHuffman(x).data)
\* returns a buffer equal to x.
HuffmanRoundTrip ==
  (codec = "huffman" /\ pc = "roundtrip") => output = Return(input)

\* C4: Huffman single-symbol input.  Compressing N >= 1 copies of a byte b
\* gives a tree with exactly one leaf, for b, and the code "0" for b, and
\* decompressing the container returns the N copies of b.
HuffmanSingleSymbol ==
  (codec = "huffman" /\ pc = "roundtrip" /\ Cardinality(BytesOf(input)) = 1) =>
    /\ LeafBytes(HuffmanTreeOf(input)) = <<input[1]>>
    /\ CodeOf(HuffmanCodesOf(input), input[1]) = <<0>>
    /\ output = Return(input)

\* C5: Huffman pass-through.  For every buffer isValidHuffmanFile rejects, the
\* empty buffer and the buffers shorter than the header included,
\* decompressHuffman returns exactly the input and raises no error.
HuffmanPassThrough ==
  (codec = "huffman" /\ pc = "decompressed" /\ ~isValidHuffmanFile(input)) =>
    output = Return(input)

\* C8: Huffman codes are prefix-free.  For every non-empty input the code map
\* gives each byte of the input one non-empty code, and no byte's code is a
\* prefix of another byte's code.
HuffmanPrefixFree ==
  (codec = "huffman" /\ pc = "compressed" /\ input # <<>>) =>
    LET codes == HuffmanCodesOf(input)
    IN /\ \A b \in BytesOf(input) : \E e \in codes : e[1] = b /\ e[2] # <<>>
       /\ \A e1 \in codes : \A e2 \in codes :
            IF e1[1] = e2[1] THEN e1 = e2 ELSE ~IsPrefix(e1[2], e2[2])

\* A compressed input of three distinct bytes whose codes differ in length.
HuffmanPrefixFreeWitness ==
  /\ codec = "huffman" /\ pc = "compressed" /\ container.ok
  /\ Cardinality(BytesOf(input)) >= 3
  /\ \E e1 \in HuffmanCodesOf(input) : \E e2 \in HuffmanCodesOf(input) :
       Len(e1[2]) < Len(e2[2])

UnsignedSizeInRange(b0, b1, b2, b3) ==
  /\ b0 < 128
  /\ b0 * 16777216 + b1 * 65536 + b2 * 256 + b3 > 0
  /\ b0 * 16777216 + b1 * 65536 + b2 * 256 + b3 <= MaxOriginalSize

RLEHeaderAccepted(buffer) ==
  /\ Len(buffer) >= 7
  /\ buffer[5] = RLE_MARKER
  /\ UnsignedSizeInRange(buffer[1], buffer[2], buffer[3], buffer[4])

\* C7: RLE format sniffer.  decompressRLE decodes only a buffer of at least 7
\* bytes whose byte 4 is 0xE1 and whose bytes 0..3, read as a big-endian
\* unsigned 32-bit value, lie in (0, 100 MiB]; every other buffer, whatever
\* its four length bytes, is returned unchanged.
RLESnifferUnsignedRange ==
  (codec = "rle" /\ pc = "decompressed") =>
    /\ isValidRLEFile(input) => RLEHeaderAccepted(input)
    /\ ~RLEHeaderAccepted(input) => output = Return(input)

\* C9: empty input is rejected on compression.  compressHuffman and
\* compressRLE fail with an error on a zero-length buffer and return no
\* container, so no container of an empty input is ever decompressed.
EmptyInputRejected ==
  (codec \in {"huffman", "rle"} /\ input = <<>>) =>
    /\ pc = "compressed" => container = Throw("Cannot compress empty input")
    /\ pc # "roundtrip"

\* compressHuffman has been called on the empty buffer and has thrown.
EmptyInputRejectedWitness ==
  /\ codec = "huffman" /\ pc = "compressed" /\ input = <<>>
  /\ ~container.ok

(***************************************************************************)
(* Properties of the LZ77 codec.                                           *)
(***************************************************************************)
\* C2: LZ77 round trip.  For every non-empty buffer x over the full byte
\* alphabet, the bytes '<', ',', '>' and the digits included,
\* decompressLZ77(compressLZ77(x)) returns a buffer equal to x.
LZ77RoundTrip ==
  (codec = "lz77" /\ pc = "roundtrip" /\ input # <<>>) => output = Return(input)

\* The successive matches of the token pattern in a string from lastIndex on.
RECURSIVE TokensFrom(_, _)
TokensFrom(string, lastIndex) ==
  LET match == PatternExec(string, lastIndex)
  IN IF ~match.found THEN <<>> ELSE <<match>> \o TokensFrom(string, match.end)

TokenInRange(token) ==
  /\ 0 <= token.distance /\ token.distance <= 2048
  /\ 0 <= token.length /\ token.length <= 32

RECURSIVE TokenTextLength(_)
TokenTextLength(tokens) ==
  IF tokens = <<>> THEN 0
  ELSE (Head(tokens).end - Head(tokens).index) + TokenTextLength(Tail(tokens))

\* At least 2 tokens, each in range, their text more than 10% of the buffer.
TwoTokensCover(buffer) ==
  LET tokens == TokensFrom(BinaryString(buffer), 0)
  IN /\ Len(tokens) >= 2
     /\ \A k \in 1..Len(tokens) : TokenInRange(tokens[k])
     /\ TokenTextLength(tokens) * 10 > Len(buffer)

\* At least 1 token, the first two (the only one, if there is just one) in
\* range, the text of those more than 10% of the buffer.
FirstTokensCover(buffer) ==
  LET tokens == TokensFrom(BinaryString(buffer), 0)
      first == SubSeq(tokens, 1, Min(2, Len(tokens)))
  IN /\ Len(tokens) >= 1
     /\ \A k \in 1..Len(first) : TokenInRange(first[k])
     /\ TokenTextLength(first) * 10 > Len(buffer)

\* C6 as claimed: decompressLZ77 decodes a buffer as a token stream only if
\* it holds at least 2 tokens, each with 0 <= distance <= 2048 and
\* 0 <= length <= 32, whose text covers more than 10% of the buffer; every
\* other buffer is returned unchanged.
LZ77SnifferTwoTokens ==
  codec = "lz77" =>
    /\ pc = "decoding" => TwoTokensCover(input)
    /\ (pc = "decompressed" /\ ~TwoTokensCover(input)) => output = Return(input)

\* C6 as amended: decompressLZ77 decodes a buffer as a token stream exactly
\* when it holds at least 1 token, its first two tokens (its only token, if
\* there is one) have 0 <= distance <= 2048 and 0 <= length <= 32, and the
\* text of those first tokens covers more than 10% of the buffer; every other
\* buffer is returned unchanged.
LZ77SnifferFirstTokens ==
  codec = "lz77" =>
    /\ pc = "decoding" => FirstTokensCover(input)
    /\ pc = "decompressed" =>
         output = IF FirstTokensCover(input)
                  THEN performActualDecompressionLZ77(input)
                  ELSE Return(input)

\* A buffer holding the single token <0,0,A> has been decoded to "A".
LZ77SnifferFirstTokensWitness ==
  /\ codec = "lz77" /\ pc = "decompressed"
  /\ input = TokenText(0, 0, <<65>>)
  /\ output = Return(<<65>>)

\* The step of the decode loop on the next token, in terms of the output o
\* before it: Thrown when the call fails there, Appended when the characters
\* copied from distance back (as the output grows) and then nextByte are
\* appended.
StepThrown ==
  /\ pc' = "decoded"
  /\ ~output'.ok
  /\ output'.data = <<>>

StepAppended(o, distance, length, char) ==
  /\ pc' = "decoding"
  /\ output'.ok
  /\ Len(output'.data) = Len(o) + length + Len(char)
  /\ SubSeq(output'.data, 1, Len(o)) = o
  /\ \A k \in 1..length : output'.data[Len(o) + k] = output'.data[Len(o) - distance + k]
  /\ SubSeq(output'.data, Len(o) + length + 1, Len(output'.data)) = char

\* C10 as claimed: decoding a token (distance, length, nextByte) with output
\* o so far fails, with no output, if distance > |o| or if one of the copied
\* positions |o| - distance + k (0 <= k < length) lies outside o as it stood
\* before the token; otherwise the copied bytes and then nextByte are appended.
LZ77BackReferenceBeforeToken ==
  [][ (codec = "lz77" /\ pc = "decoding"
         /\ PatternExec(BinaryString(input), cursor).found) =>
      LET token == PatternExec(BinaryString(input), cursor)
          o == output.data
      IN IF \/ token.distance > Len(o)
            \/ \E k \in 0..(token.length - 1) :
                 \/ Len(o) - token.distance + k < 0
                 \/ Len(o) - token.distance + k >= Len(o)
         THEN StepThrown
         ELSE StepAppended(o, token.distance, token.length, token.char) ]_vars

\* C10 as amended: decoding a token (distance, length, nextByte) with output
\* o so far fails, with no output, if distance > |o| or if one of the copied
\* positions |o| - distance + k (0 <= k < length) lies outside the output as
\* it stands when that byte is copied (o and the k bytes copied before it),
\* which is the case exactly when distance = 0 and length > 0; otherwise the
\* copied bytes and then nextByte are appended.
LZ77BackReferenceGrowingOutput ==
  [][ (codec = "lz77" /\ pc = "decoding"
         /\ PatternExec(BinaryString(input), cursor).found) =>
      LET token == PatternExec(BinaryString(input), cursor)
          o == output.data
      IN IF \/ token.distance > Len(o)
            \/ token.distance = 0 /\ token.length > 0
         THEN StepThrown
         ELSE StepAppended(o, token.distance, token.length, token.char) ]_vars

\* The token <1,2,> has been decoded after <0,0,A>: its second byte is copied
\* from the byte the token itself produced.
LZ77BackReferenceWitness ==
  /\ codec = "lz77" /\ pc = "decoding"
  /\ input = TokenText(0, 0, <<65>>) \o TokenText(1, 2, <<>>)
  /\ cursor = Len(input)
  /\ output = Return(<<65, 65, 65>>)

(***************************************************************************)
(* Step claims on the RLE decode loop.  At a pass of the loop the decoder  *)
(* is at 0-based position cursor of the payload (the bytes after the six   *)
(* header bytes) and has produced output.data.                             *)
(***************************************************************************)
RLEAtToken == codec = "rle" /\ pc = "decoding"

\* The RLE decode loop is about to read a token: fewer than originalSize bytes
\* are produced and payload bytes are left.
RLEReadsToken ==
  /\ RLEAtToken
  /\ cursor < Len(RLECompressed(input))
  /\ Len(output.data) < RLEOriginalSize(input)

\* The byte at the token position is the escape byte and the token is
\* malformed: fewer than two bytes follow the escape byte, or the run length
\* that follows is 0.
RLEMalformedEscape ==
  LET compressed == RLECompressed(input)
  IN /\ compressed[cursor + 1] = RLEEscapeByteUsed(input)
     /\ \/ Len(compressed) - (cursor + 1) < 2
        \/ compressed[cursor + 3] = 0

\* C11: while fewer than originalLength bytes are produced, a pass of the RLE
\* decode loop that reads the escape byte at a token position, followed by
\* fewer than two bytes or by a run length of 0, ends the call with an error
\* and no output.
RLEMalformedEscapeFails ==
  [][ (RLEReadsToken /\ RLEMalformedEscape) =>
        (pc' = "decoded" /\ ~output'.ok /\ output'.data = <<>>) ]_vars

\* A call that failed on a run length of 0 read after a literal was decoded.
RLEMalformedEscapeWitness ==
  /\ codec = "rle" /\ pc = "decoded"
  /\ ~output.ok
  /\ cursor = 1
  /\ Len(RLECompressed(input)) >= cursor + 3
  /\ RLEMalformedEscape

(***************************************************************************)
(* Claims on the Huffman decoder's use of the declared length.             *)
(***************************************************************************)
\* The originalLength field of a Huffman container, bytes 3..6 read as an
\* unsigned 32-bit number, is at least n (n < 2^31).
HuffmanDeclaredLengthAtLeast(buffer, n) ==
  buffer[4] >= 128 \/ Int32BE(buffer[4], buffer[5], buffer[6], buffer[7]) >= n

\* C12: for every container the Huffman sniffer accepts, whatever its
\* originalLength field holds, the buffer decompressHuffman returns has at most
\* originalLength bytes.
HuffmanStopsAtDeclaredLength ==
  (codec = "huffman" /\ pc = "decompressed" /\ isValidHuffmanFile(input) /\ output.ok)
    => HuffmanDeclaredLengthAtLeast(input, Len(output.data))

\* The originalLength field of an RLE container, bytes 0..3 read as an
\* unsigned 32-bit number, is at least n (n < 2^31).
RLEDeclaredLengthAtLeast(buffer, n) ==
  buffer[1] >= 128 \/ RLEOriginalSize(buffer) >= n

\* Every output of the RLE decoder on an accepted container, partial or
\* returned, has at most originalLength bytes.
RLEOutputWithinDeclaredLength ==
  (/\ codec = "rle"
   /\ pc \in {"decoding", "decoded", "decompressed"}
   /\ isValidRLEFile(input)
   /\ output.ok)
    => RLEDeclaredLengthAtLeast(input, Len(output.data))

\* A pass of the RLE decode loop: once originalLength bytes are produced no
\* token is consumed and the call returns what it has; before that, a run
\* token (escape, value, count) with a count in 1..255 appends count copies of
\* value cut to the room left under originalLength.
RLEStepWithinDeclaredLength ==
  RLEAtToken =>
    LET compressed == RLECompressed(input)
        o == output.data
        room == RLEOriginalSize(input) - Len(o)
    IN IF room <= 0
       THEN pc' = "decoded" /\ cursor' = cursor /\ output' = output
       ELSE (/\ cursor + 2 < Len(compressed)
             /\ compressed[cursor + 1] = RLEEscapeByteUsed(input)
             /\ compressed[cursor + 3] \in 1..255)
              => /\ output' = Return(o \o [k \in 1..Min(compressed[cursor + 3], room) |->
                                             compressed[cursor + 2]])
                 /\ cursor' = cursor + 3

\* C13: at every pass of the RLE decode loop and in the returned buffer the
\* output has at most originalLength bytes; a run token that would overshoot
\* is cut to the room left, and no token is consumed once originalLength bytes
\* are produced.
RLENeverOvershoots ==
  []RLEOutputWithinDeclaredLength /\ [][RLEStepWithinDeclaredLength]_vars

\* The run token [0xFF, 7, 3] decoded under a declared length of 1: one byte
\* is produced and the call has returned it.
RLENeverOvershootsWitness ==
  /\ codec = "rle" /\ pc = "decoded"
  /\ isValidRLEFile(input)
  /\ RLEOriginalSize(input) = 1
  /\ RLECompressed(input) = <<255, 7, 3>>
  /\ RLEEscapeByteUsed(input) = 255
  /\ cursor = 3
  /\ output = Return(<<7>>)

(***************************************************************************)
(* Claims on how a decode ends.  In the Huffman decode loop cursor is the  *)
(* number of payload bits consumed and treeNode the tree cursor.           *)
(***************************************************************************)
HuffmanAtBit == codec = "huffman" /\ pc = "decoding"

\* The payload of the container being decoded is used up with fewer than
\* originalLength bytes decoded and no error thrown so far.
PayloadExhaustedShort ==
  \/ /\ HuffmanAtBit
     /\ cursor >= Len(HuffmanBitString(input))
     /\ HuffmanDeclaredLengthAtLeast(input, Len(output.data) + 1)
  \/ /\ RLEAtToken
     /\ cursor >= Len(RLECompressed(input))
     /\ RLEDeclaredLengthAtLeast(input, Len(output.data) + 1)

\* C14: when the payload of an accepted Huffman or RLE container is used up
\* before originalLength bytes are decoded, and nothing was thrown, the call
\* returns the bytes decoded so far.
SizeMismatchNonFatal ==
  [][ PayloadExhaustedShort =>
        (pc' = "decoded" /\ output'.ok /\ output'.data = output.data) ]_vars

\* A Huffman call that returned 1 byte or more, fewer than the declared
\* length, after its last payload bit.
SizeMismatchNonFatalWitness ==
  /\ codec = "huffman" /\ pc = "decoded"
  /\ output.ok
  /\ Len(output.data) >= 1
  /\ cursor = Len(HuffmanBitString(input))
  /\ HuffmanOriginalSize(input) > Len(output.data)

\* The child of the tree cursor that the next payload bit selects.
HuffmanNextChild ==
  IF HuffmanBitString(input)[cursor + 1] = 0 THEN LeftOf(treeNode) ELSE RightOf(treeNode)

\* C15: in the decode of an accepted Huffman container, a payload bit that
\* moves the tree cursor to a null child ends the call with an error: no later
\* bit is decoded and no output is returned.
HuffmanNullChildFails ==
  [][ (/\ HuffmanAtBit
       /\ cursor < Len(HuffmanBitString(input))
       /\ HuffmanNextChild = NullNode)
        => (pc' = "decoded" /\ ~output'.ok /\ output'.data = <<>> /\ cursor' = cursor) ]_vars

\* A call that failed on its first payload bit: the tree of the container is
\* a single leaf, whose children are null.
HuffmanNullChildWitness ==
  /\ codec = "huffman" /\ pc = "decoded"
  /\ isValidHuffmanFile(input)
  /\ treeNode.tag = "leaf"
  /\ cursor = 0
  /\ output = Throw("Huffman tree traversal error: reached null node")

(***************************************************************************)
(* Claims on the LZ77 compressor's window.  At a pass of the compress loop *)
(* cursor is the 0-based position i of the next token.                     *)
(***************************************************************************)
LZ77AtToken == codec = "lz77" /\ pc = "compressing" /\ cursor < Len(input)

\* The n bytes of string from 0-based position p equal the n bytes from i, and
\* lie before i.
LZ77OccursAt(string, p, i, n) ==
  /\ p + n <= i
  /\ i + n <= Len(string)
  /\ \A k \in 1..n : string[p + k] = string[i + k]

\* A pass of the compress loop at i emits a token (distance, length, next)
\* with distance at most windowSize (2048), whose length bytes occur distance
\* bytes before i, and whose length is at least 1 when the byte at i also
\* stands exactly windowSize bytes before i.
LZ77TokenWithinWindow ==
  LZ77AtToken =>
    LET string == BinaryString(input)
        i == cursor
        length == cursor' - cursor - 1
        nextChar == IF i + length < Len(string) THEN <<string[i + length + 1]>> ELSE <<>>
    IN /\ length >= 0
       /\ \E distance \in 0..Min(i, windowSize) :
            /\ container' = Return(container.data \o TokenText(distance, length, nextChar))
            /\ distance = 0 <=> length = 0
            /\ LZ77OccursAt(string, i - distance, i, length)
       /\ (i >= windowSize /\ LZ77OccursAt(string, i - windowSize, i, 1)) => length >= 1

\* C16: at every position i of the compress loop an occurrence starting
\* exactly 2048 bytes before i can be matched, one starting 2049 bytes or more
\* before i is never matched, and every emitted distance is at most 2048.
LZ77WindowBoundary == [][LZ77TokenWithinWindow]_vars

\* The token <2048,1,B> has been pushed: the "A" at position 2048 matched the
\* "A" at position 0.
LZ77WindowBoundaryWitness ==
  /\ codec = "lz77" /\ pc = "compressing"
  /\ input \in LZ77WindowInputs
  /\ cursor = windowSize + 2
  /\ SubSeq(container.data, Len(container.data) - 9, Len(container.data))
       = TokenText(windowSize, 1, <<66>>)

(***************************************************************************)
(* Claims on the RLE token stream.  A maximal run of a buffer is a stretch *)
(* of equal bytes that no equal byte precedes or follows.                  *)
(***************************************************************************)
\* The last (1-based) position of the maximal run that starts at p.
RunEnd(buffer, p) ==
  CHOOSE q \in p..Len(buffer) :
    /\ q = Len(buffer) \/ buffer[q + 1] # buffer[p]
    /\ \A k \in p..q : buffer[k] = buffer[p]

\* The maximal runs of the buffer from 1-based position p on, in order.
RECURSIVE MaximalRunsFrom(_, _)
MaximalRunsFrom(buffer, p) ==
  IF p > Len(buffer) THEN <<>>
  ELSE <<[byte |-> buffer[p], length |-> RunEnd(buffer, p) - p + 1]>>
         \o MaximalRunsFrom(buffer, RunEnd(buffer, p) + 1)

\* One byte b as a literal: raw, or the escaped form when b is 0xFF.
RLELiteral(b) == IF b = 255 THEN <<255, 255, 1>> ELSE <<b>>

\* The reference encoding of a maximal run of n bytes b: greedy pieces of at
\* most 255 bytes, a piece of 3 or more as [0xFF, b, n], a piece of 1 or 2 as
\* that many literals.
RECURSIVE RLEReference(_, _)
RLEReference(b, n) ==
  IF n > 255 THEN <<255, b, 255>> \o RLEReference(b, n - 255)
  ELSE IF n >= 3 THEN <<255, b, n>>
  ELSE IF n = 2 THEN RLELiteral(b) \o RLELiteral(b)
  ELSE IF n = 1 THEN RLELiteral(b)
  ELSE <<>>

\* The reference encoding of a sequence of maximal runs.
RLEReferenceOfRuns(runs) ==
  Flatten([k \in 1..Len(runs) |-> RLEReference(runs[k].byte, runs[k].length)])

\* The tokens of the container compressRLE returned: the bytes after the six
\* header bytes.
RLEContainerTokens == SubSeq(container.data, 7, Len(container.data))

RLEHasCompressed == codec = "rle" /\ pc = "compressed" /\ container.ok

\* C17: in the token stream compressRLE emits, a maximal run of exactly 255
\* bytes b stands as the one token [0xFF, b, 255], and a maximal run of 256 as
\* [0xFF, b, 255] followed by one literal b (raw, or [0xFF, 0xFF, 1] when b is
\* 0xFF); the next run's tokens, or the end of the stream, follow at once.
RLERunBoundary ==
  RLEHasCompressed =>
    LET runs == MaximalRunsFrom(input, 1)
        tokens == RLEContainerTokens
    IN \A k \in 1..Len(runs) :
         LET b == runs[k].byte
             n == runs[k].length
             from == Len(RLEReferenceOfRuns(SubSeq(runs, 1, k - 1)))
             expected == IF n = 255 THEN <<255, b, 255>>
                         ELSE <<255, b, 255>> \o RLELiteral(b)
         IN n \in {255, 256} =>
              /\ SubSeq(tokens, from + 1, from + Len(expected)) = expected
              /\ \/ k = Len(runs) /\ Len(tokens) = from + Len(expected)
                 \/ /\ k < Len(runs)
                    /\ Len(tokens) > from + Len(expected)
                    /\ tokens[from + Len(expected) + 1] \in {255, runs[k + 1].byte}

\* Two bytes 7 and then 256 bytes 0xFF have been compressed: the tokens are the
\* two literals, the run token of 255 and the escaped literal.
RLERunBoundaryWitness ==
  /\ RLEHasCompressed
  /\ MaximalRunsFrom(input, 1) = <<[byte |-> 7, length |-> 2], [byte |-> 255, length |-> 256]>>
  /\ RLEContainerTokens = <<7, 7, 255, 255, 255, 255, 255, 1>>

\* The stream from 1-based position p on parses token by token into raw
\* literals other than 0xFF and complete escape records [0xFF, b, n] with n in
\* 3..255 or b = 0xFF and n = 1.
RECURSIVE RLEParsesFrom(_, _)
RLEParsesFrom(tokens, p) ==
  IF p > Len(tokens) THEN TRUE
  ELSE IF tokens[p] # 255 THEN RLEParsesFrom(tokens, p + 1)
  ELSE /\ p + 2 <= Len(tokens)
       /\ \/ tokens[p + 2] \in 3..255
          \/ tokens[p + 1] = 255 /\ tokens[p + 2] = 1
       /\ RLEParsesFrom(tokens, p + 3)

\* C18: the token stream compressRLE emits is the reference encoding of the
\* buffer's maximal runs (greedy pieces capped at 255; [0xFF, b, n] for a piece
\* of n >= 3; n literals for a piece of 1 or 2, each raw or [0xFF, 0xFF, 1]
\* when b is 0xFF), and parsed token by token it holds no raw 0xFF and only
\* escape records with a count in 3..255 or equal to [0xFF, 0xFF, 1].
RLEReferenceEncoding ==
  RLEHasCompressed =>
    /\ RLEContainerTokens = RLEReferenceOfRuns(MaximalRunsFrom(input, 1))
    /\ RLEParsesFrom(RLEContainerTokens, 1)

\* Three bytes 7, two bytes 0xFF and one byte 7 have been compressed.
RLEReferenceEncodingWitness ==
  /\ RLEHasCompressed
  /\ input = <<7, 7, 7, 255, 255, 7>>
  /\ RLEContainerTokens = <<255, 7, 3, 255, 255, 1, 255, 255, 1, 7>>

(***************************************************************************)
(* Claims on the tree buildHuffmanTree builds for the buffer compressed.   *)
(***************************************************************************)
HuffmanHasCompressed == codec = "huffman" /\ pc = "compressed" /\ container.ok

Occurrences(buffer, b) == Cardinality({ k \in 1..Len(buffer) : buffer[k] = b })

FirstOccurrence(buffer, b) ==
  CHOOSE k \in 1..Len(buffer) : buffer[k] = b /\ \A j \in 1..(k - 1) : buffer[j] # b

\* The pending node to remove next: one of smallest freq and, among those, the
\* one that entered the pending nodes first.
FirstPending(pending) ==
  CHOOSE e \in pending :
    \A o \in pending :
      \/ e.node.freq < o.node.freq
      \/ e.node.freq = o.node.freq /\ e.entered <= o.entered

\* Merging by priority: the two pending nodes to remove next become the left
\* and the right child of a new node that enters at time clock, until one node
\* is left.
RECURSIVE MergeByPriority(_, _)
MergeByPriority(pending, clock) ==
  IF Cardinality(pending) = 1 THEN (CHOOSE e \in pending : TRUE).node
  ELSE LET first == FirstPending(pending)
           second == FirstPending(pending \ {first})
           merged == [tag |-> "internal", freq |-> first.node.freq + second.node.freq,
                      left |-> first.node, right |-> second.node]
       IN MergeByPriority((pending \ {first, second}) \cup
                            { [node |-> merged, entered |-> clock] }, clock + 1)

\* The leaves of a buffer, each entering at its byte's first occurrence.
PendingLeaves(buffer) ==
  { [node |-> [tag |-> "leaf", byte |-> b, freq |-> Occurrences(buffer, b)],
     entered |-> FirstOccurrence(buffer, b)] : b \in BytesOf(buffer) }

\* C19: for a buffer of two or more distinct bytes, the tree buildHuffmanTree
\* returns is the one obtained by removing, at each step, the two pending
\* nodes of smallest freq (among equal freq the one that entered earlier:
\* leaves in first-occurrence order of their byte, merged nodes when created),
\* the first removed as left child and the second as right child of the new
\* node, until one node, the root, is left.
HuffmanMergeOrder ==
  (HuffmanHasCompressed /\ Cardinality(BytesOf(input)) >= 2) =>
    HuffmanTreeOf(input) = MergeByPriority(PendingLeaves(input), Len(input) + 1)

\* "ABC" and a fourth byte once each: the two merged nodes have equal freq and
\* the one made first is the root's left child.
HuffmanMergeOrderWitness ==
  /\ HuffmanHasCompressed
  /\ input = <<65, 66, 67, 1>>
  /\ LeafBytes(HuffmanTreeOf(input)) = <<65, 66, 67, 1>>
  /\ HuffmanTreeOf(input).left.freq = 2
  /\ HuffmanTreeOf(input).right.freq = 2

\* node.freq, nothing for a missing child.
FreqOf(node) == IF node.tag = "null" THEN 0 ELSE node.freq

\* Every internal node's freq is the sum of its children's, and every leaf's
\* freq the number of occurrences of its byte in the buffer.
RECURSIVE TreeFreqsAddUp(_, _)
TreeFreqsAddUp(node, buffer) ==
  IF node.tag = "null" THEN TRUE
  ELSE IF node.tag = "leaf" THEN node.freq = Occurrences(buffer, node.byte)
  ELSE /\ node.freq = FreqOf(node.left) + FreqOf(node.right)
       /\ TreeFreqsAddUp(node.left, buffer)
       /\ TreeFreqsAddUp(node.right, buffer)

\* C20: for every non-empty buffer, in the tree built each internal node's
\* freq is the sum of its children's freq, the root's freq is the buffer's
\* length, each leaf's freq is the number of occurrences of its byte, and the
\* leaves carry the distinct bytes of the buffer, each exactly once.
HuffmanTreeInvariants ==
  HuffmanHasCompressed =>
    LET tree == HuffmanTreeOf(input)
        leaves == LeafBytes(tree)
    IN /\ TreeFreqsAddUp(tree, input)
       /\ tree.freq = Len(input)
       /\ BytesOf(leaves) = BytesOf(input)
       /\ Len(leaves) = Cardinality(BytesOf(input))

\* "ABACA" has been compressed: a root of freq 5 over the leaf A (3) and the
\* node of B and C (2).
HuffmanTreeInvariantsWitness ==
  /\ HuffmanHasCompressed
  /\ input = <<65, 66, 65, 67, 65>>
  /\ HuffmanTreeOf(input).freq = 5
  /\ LeafBytes(HuffmanTreeOf(input)) = <<66, 67, 65>>

(***************************************************************************)
(* Claims on the container compressHuffman emits.                          *)
(***************************************************************************)
\* The depth of the leaf of byte b under node, the node itself at depth d; 0
\* when no leaf under node carries b.
RECURSIVE LeafDepth(_, _, _)
LeafDepth(node, b, d) ==
  IF node.tag = "null" THEN 0
  ELSE IF node.tag = "leaf" THEN (IF node.byte = b THEN d ELSE 0)
  ELSE Max(LeafDepth(node.left, b, d + 1), LeafDepth(node.right, b, d + 1))

\* The length of the code of byte b of the buffer: the depth of its leaf.
CodeLength(buffer, b) == LeafDepth(HuffmanTreeOf(buffer), b, 0)

\* B: the sum of the code lengths of the bytes of the buffer from position k.
RECURSIVE CodeLengthSum(_, _)
CodeLengthSum(buffer, k) ==
  IF k > Len(buffer) THEN 0
  ELSE CodeLength(buffer, buffer[k]) + CodeLengthSum(buffer, k + 1)

\* C21: for every non-empty buffer, with B the sum of the code lengths of its
\* bytes, the container has padding p = (8 - B mod 8) mod 8 in 0..7, a
\* treeSize field equal to the number of bytes between the 7-byte header and
\* the payload, an originalLength field equal to the buffer's length, and a
\* payload of (B + p) / 8 bytes whose last p bits are 0.
HuffmanContainerConsistent ==
  HuffmanHasCompressed =>
    LET data == container.data
        B == CodeLengthSum(input, 1)
        p == (8 - (B % 8)) % 8
        payloadLength == (B + p) \div 8
        treeSize == data[2] * 256 + data[3]
        payloadBits == UnpackBits(SubSeq(data, Len(data) - payloadLength + 1, Len(data)))
    IN /\ Len(data) >= 7
       /\ data[1] = p
       /\ p \in 0..7
       /\ (B + p) % 8 = 0
       /\ treeSize = Len(data) - 7 - payloadLength
       /\ treeSize >= 1
       /\ data[4] * 16777216 + data[5] * 65536 + data[6] * 256 + data[7] = Len(input)
       /\ \A k \in 1..p : payloadBits[Len(payloadBits) - p + k] = 0

\* A buffer of three distinct bytes has been compressed with 1 to 7 bits of
\* padding.
HuffmanContainerConsistentWitness ==
  /\ HuffmanHasCompressed
  /\ Cardinality(BytesOf(input)) = 3
  /\ container.data[1] \in 1..7

\* C22: for any two bytes a and b of the buffer compressed, if a occurs
\* strictly more often than b then a's code is no longer than b's.
HuffmanCodeLengthsFollowFrequency ==
  HuffmanHasCompressed =>
    \A a, b \in BytesOf(input) :
      Occurrences(input, a) > Occurrences(input, b) =>
        Len(CodeOf(HuffmanCodesOf(input), a)) <= Len(CodeOf(HuffmanCodesOf(input), b))

\* "AAAAAABBBCCD" has been compressed: A has a code of 1 bit, B of 2 bits, C
\* and D of 3 bits.
HuffmanCodeLengthsWitness ==
  /\ HuffmanHasCompressed
  /\ input \in HuffmanScenarios
  /\ Len(CodeOf(HuffmanCodesOf(input), 65)) = 1
  /\ Len(CodeOf(HuffmanCodesOf(input), 66)) = 2
  /\ Len(CodeOf(HuffmanCodesOf(input), 67)) = 3
  /\ Len(CodeOf(HuffmanCodesOf(input), 68)) = 3

(***************************************************************************)
(* Claims on the tokens compressLZ77 emits, pass by pass.                  *)
(***************************************************************************)
\* The length of the common prefix of window[j..] (0-based j) and lookahead.
CommonPrefixLength(window, lookahead, j) ==
  CHOOSE n \in 0..Len(lookahead) :
    /\ \/ n = Len(lookahead)
       \/ j + n >= Len(window)
       \/ window[j + n + 1] # lookahead[n + 1]
    /\ \A k \in 1..n : j + k <= Len(window) /\ window[j + k] = lookahead[k]

\* The greatest number of a non-empty set of numbers.
Greatest(S) == CHOOSE m \in S : \A x \in S : x <= m

\* The token a pass at i emits has the greatest common-prefix length over the
\* offsets j of the window as its length and, as its distance, the window's
\* length minus the smallest j of that length; 0 and 0 when no window byte
\* matches.
LZ77TokenIsLongestOldest ==
  LZ77AtToken =>
    LET string == BinaryString(input)
        i == cursor
        window == SubSeq(string, Max(0, i - 2048) + 1, i)
        lookahead == SubSeq(string, i + 1, Min(i + 32, Len(string)))
    IN \E prefix \in { [j \in 0..(Len(window) - 1) |->
                         CommonPrefixLength(window, lookahead, j)] } :
         LET length == Greatest({0} \cup { prefix[j] : j \in DOMAIN prefix })
             oldest == CHOOSE j \in DOMAIN prefix :
                         prefix[j] = length /\ \A older \in 0..(j - 1) : prefix[older] < length
             distance == IF length = 0 THEN 0 ELSE Len(window) - oldest
             nextChar == IF i + length < Len(string)
                         THEN <<string[i + length + 1]>> ELSE <<>>
         IN /\ cursor' = i + length + 1
            /\ container' = Return(container.data \o TokenText(distance, length, nextChar))

\* C23: at each position i the emitted length is the greatest common-prefix
\* length between window[j..] and the lookahead over the offsets j of the
\* window buffer[max(0, i - 2048) .. i), the lookahead being
\* buffer[i .. min(i + 32, n)); the emitted distance is the window's length
\* minus the smallest such j; distance and length are 0 when nothing matches.
LZ77GreedyLongestMatch == [][LZ77TokenIsLongestOldest]_vars

\* "AABA" after its third token: the last "A" matched both earlier ones with
\* length 1 and the older one, 3 bytes back, was taken.
LZ77GreedyLongestMatchWitness ==
  /\ codec = "lz77" /\ pc = "compressing"
  /\ input = <<65, 65, 66, 65>>
  /\ cursor = 5
  /\ container.data = TokenText(0, 0, <<65>>) \o TokenText(1, 1, <<66>>) \o TokenText(3, 1, <<>>)

\* The buffer "ABABABAB" has been compressed and the result decompressed.
LZ77ScenarioDone ==
  codec = "lz77" /\ pc = "roundtrip" /\ input = <<65, 66, 65, 66, 65, 66, 65, 66>>

\* C24 as claimed: compressing "ABABABAB" emits <0,0,A> and <0,0,B> and after
\* them only tokens of distance 2, and decompressing the result returns
\* "ABABABAB".
LZ77ScenarioDistanceTwo ==
  LZ77ScenarioDone =>
    LET tokens == TokensFrom(BinaryString(container.data), 0)
    IN /\ Len(tokens) >= 2
       /\ SubSeq(container.data, 1, tokens[2].end)
            = TokenText(0, 0, <<65>>) \o TokenText(0, 0, <<66>>)
       /\ \A k \in 3..Len(tokens) : tokens[k].distance = 2
       /\ output = Return(input)

\* C24 as amended: compressing "ABABABAB" emits the four tokens <0,0,A>,
\* <0,0,B>, <2,2,A> and <4,3,> (the last match is taken 4 bytes back, the
\* oldest of the longest matches), and decompressing the result returns
\* "ABABABAB".
LZ77ScenarioOldestMatch ==
  LZ77ScenarioDone =>
    /\ container = Return(TokenText(0, 0, <<65>>) \o TokenText(0, 0, <<66>>)
                            \o TokenText(2, 2, <<65>>) \o TokenText(4, 3, <<>>))
    /\ output = Return(input)

\* The scenario has run: the stream ends with <4,3,> and the round trip gave
\* the input back.
LZ77ScenarioWitness ==
  /\ LZ77ScenarioDone
  /\ output = Return(input)
  /\ SubSeq(container.data, Len(container.data) - 5, Len(container.data))
       = TokenText(4, 3, <<>>)

(***************************************************************************)
(* Claims on the LZ77 token stream as a partition of the input.  The       *)
(* buffers compressed token by token hold none of the characters "<", ","  *)
(* and ">", so every "<" of the stream opens a token and ",>" closes a     *)
(* token without a next byte.                                              *)
(***************************************************************************)
\* The number of tokens pushed so far.
LZ77TokenCount ==
  Cardinality({ k \in 1..Len(container.data) : container.data[k] = CharLT })

\* The number of tokens pushed so far that carry no next byte.
LZ77TokensWithoutNext ==
  Cardinality({ k \in 2..Len(container.data) :
                  container.data[k] = CharGT /\ container.data[k - 1] = CharComma })

\* A pass of the compress loop at i pushes one token <distance,length,next>
\* and moves i by length + 1; the token covers the length bytes from i and,
\* when it has one, the next byte after them, all inside the input; a token
\* without next byte ends the loop.
LZ77TokenAdvances ==
  LZ77AtToken =>
    LET string == BinaryString(input)
        i == cursor
        length == cursor' - cursor - 1
    IN /\ length >= 0
       /\ i + length <= Len(string)
       /\ \E distance \in 0..Min(i, windowSize) :
            \E nextChar \in {<<>>} \cup { <<string[k]>> : k \in {i + length + 1} \cap DOMAIN string } :
              /\ container' = Return(container.data \o TokenText(distance, length, nextChar))
              /\ nextChar = <<>> => cursor' > Len(string)
              /\ nextChar # <<>> => cursor' <= Len(string)

\* While and after the loop runs: at most one token per byte consumed, only
\* the last token can lack its next byte, and when the loop has ended the
\* bytes covered by the tokens (i less the missing next byte) are the n bytes
\* of the input, with at most n tokens.
LZ77TokensCoverInput ==
  (codec = "lz77" /\ pc \in {"compressing", "compressed"}) =>
    /\ LZ77TokenCount <= cursor
    /\ LZ77TokensWithoutNext <= 1
    /\ LZ77TokensWithoutNext = 1 =>
         /\ cursor = Len(input) + 1
         /\ SubSeq(container.data, Len(container.data) - 1, Len(container.data))
              = <<CharComma, CharGT>>
    /\ LZ77TokensWithoutNext = 0 => cursor <= Len(input)
    /\ pc = "compressed" =>
         /\ cursor - LZ77TokensWithoutNext = Len(input)
         /\ LZ77TokenCount <= Len(input)

\* C25: LZ77 compression ends and its tokens partition the input: each token
\* moves the position by length + 1, an input of n bytes gives at most n
\* tokens, the lengths plus one per next byte present add up to n, and only
\* the last token can lack its next byte.
LZ77TokensPartitionInput == []LZ77TokensCoverInput /\ [][LZ77TokenAdvances]_vars

\* "AA" compressed to <0,0,A><1,1,>: two tokens, the last without next byte,
\* and the position one past the end.
LZ77TokensPartitionInputWitness ==
  /\ codec = "lz77" /\ pc = "compressed"
  /\ input = <<65, 65>>
  /\ cursor = 3
  /\ container.data = TokenText(0, 0, <<65>>) \o TokenText(1, 1, <<>>)

\* The 1-based positions of the commas of a text.
CommasOf(text) == { k \in 1..Len(text) : text[k] = CharComma }

\* The least member of a non-empty set of integers.
Least(S) == CHOOSE m \in S : \A other \in S : m <= other

\* The text a pass of the compress loop appends to the stream.
LZ77PushedText == SubSeq(container'.data, Len(container.data) + 1, Len(container'.data))

\* A pass of the compress loop pushes a text "<" digits "," digits "," next
\* ">" whose two numbers, distance and length, satisfy 0 <= length <= 32,
\* 0 <= distance <= 2048, length <= distance, and length = 0 exactly when
\* distance = 0.
LZ77TokenBounded ==
  LZ77AtToken =>
    LET text == LZ77PushedText
        first == Least(CommasOf(text))
        second == Least(CommasOf(text) \ {first})
        distance == ParseInt(SubSeq(text, 2, first - 1))
        length == ParseInt(SubSeq(text, first + 1, second - 1))
    IN /\ Cardinality(CommasOf(text)) = 2
       /\ first > 2 /\ second > first + 1
       /\ text = TokenText(distance, length, SubSeq(text, second + 1, Len(text) - 1))
       /\ Len(text) - second \in {1, 2}
       /\ 0 <= length /\ length <= 32
       /\ 0 <= distance /\ distance <= 2048
       /\ length <= distance
       /\ length = 0 <=> distance = 0

\* C26: every token emitted by compressLZ77 has 0 <= length <= 32,
\* 0 <= distance <= 2048, length <= distance (a match never runs past the
\* current position into the lookahead), and length = 0 exactly when
\* distance = 0.
LZ77TokenBounds == [][LZ77TokenBounded]_vars

\* In the run of "B" of the long buffer the token <63,32,B> has been pushed
\* at position 68: 63 bytes of the window match, 32 are taken.
LZ77TokenBoundsWitness ==
  /\ codec = "lz77" /\ pc = "compressing"
  /\ input \in LZ77WindowInputs
  /\ cursor = 101
  /\ SubSeq(container.data, Len(container.data) - 8, Len(container.data))
       = TokenText(63, 32, <<66>>)

(***************************************************************************)
(* Claims on the LZ77 sniffer applied to the compressor's own streams.     *)
(***************************************************************************)
\* compressLZ77 has run on a non-empty input.
LZ77OwnStream ==
  codec = "lz77" /\ pc \in {"compressed", "roundtrip"} /\ Len(input) > 0 /\ container.ok

\* C27: for every non-empty input x, however many tokens its compressed
\* stream has and however long it is, isValidLZ77File(compressLZ77(x)) is
\* true, and decompressLZ77 decodes the stream, it does not return it
\* unchanged.
LZ77SnifferAcceptsOwnStream ==
  LZ77OwnStream =>
    /\ isValidLZ77File(container.data)
    /\ pc = "roundtrip" => output # Return(container.data)

(***************************************************************************)
(* Claims on the size of the serialized Huffman tree.                      *)
(***************************************************************************)
\* The number of distinct byte values of a buffer.
DistinctBytes(buffer) == Cardinality({ buffer[k] : k \in 1..Len(buffer) })

\* The records of a serialized tree read from 0-based offset i on: a 1 opens a
\* two-byte leaf record, any other byte is a one-byte marker.
RECURSIVE TreeRecords(_, _, _, _)
TreeRecords(bytes, i, leaves, markers) ==
  IF i >= Len(bytes) THEN [leaves |-> leaves, markers |-> markers, end |-> i]
  ELSE IF bytes[i + 1] = 1 THEN TreeRecords(bytes, i + 2, leaves + 1, markers)
  ELSE TreeRecords(bytes, i + 1, leaves, markers + 1)

\* compressHuffman has run on a buffer of at least two distinct byte values.
HuffmanCompressedSeveral ==
  codec = "huffman" /\ pc = "compressed" /\ DistinctBytes(input) >= 2

\* C28: for an input of L >= 2 distinct byte values the serialized tree has
\* exactly 3L - 1 bytes, L two-byte leaf records and L - 1 one-byte internal
\* markers, so at most 767 bytes, and compressHuffman does not fail with "tree
\* too large".
HuffmanTreeSizeLinear ==
  HuffmanCompressedSeveral =>
    /\ container.ok
    /\ LET L == DistinctBytes(input)
           treeSize == container.data[2] * 256 + container.data[3]
           treeBytes == SubSeq(container.data, 8, 7 + treeSize)
           records == TreeRecords(treeBytes, 0, 0, 0)
       IN /\ treeSize = 3 * L - 1
          /\ Len(container.data) >= 7 + treeSize
          /\ records = [leaves |-> L, markers |-> L - 1, end |-> treeSize]
          /\ \A k \in 1..Len(treeBytes) : treeBytes[k] # 1 => treeBytes[k] \in {0} \cup { input[n] : n \in 1..Len(input) }
          /\ treeSize <= 767

\* A buffer of 5 or more distinct byte values has been compressed: its tree
\* takes 14 bytes or more.
HuffmanTreeSizeLinearWitness ==
  /\ HuffmanCompressedSeveral
  /\ container.ok
  /\ DistinctBytes(input) >= 5
  /\ container.data[3] = 3 * DistinctBytes(input) - 1

(***************************************************************************)
(* Huffman, JSON-header codec (src/backend/algorithms/huffman.js), the     *)
(* module the server imports, with isText = false.  A container is a       *)
(* 4-byte big-endian header size, the header as JSON text and the packed   *)
(* bits.  JavaScript values are records tagged by type; a text is the      *)
(* sequence of its character codes.                                        *)
(***************************************************************************)
JsNull == [type |-> "null"]
JsUndefined == [type |-> "undefined"]
JsNumber(n) == [type |-> "number", number |-> n]
JsBoolean(b) == [type |-> "boolean", boolean |-> b]
\* An object as the sequence of its members <<key, value>> in insertion order.
JsObject(members) == [type |-> "object", members |-> members]

\* new HuffmanNode(char, freq, left, right); null is NullNode.
HuffmanNode(char, freq, left, right) ==
  [tag |-> "node", char |-> char, freq |-> freq, left |-> left, right |-> right]

CharQuote == 34
CharColon == 58
CharLBrace == 123
CharRBrace == 125
TextNull == <<110, 117, 108, 108>>
TextTrue == <<116, 114, 117, 101>>
TextFalse == <<102, 97, 108, 115, 101>>
KeyChar == <<99, 104, 97, 114>>
KeyFreq == <<102, 114, 101, 113>>
KeyLeft == <<108, 101, 102, 116>>
KeyRight == <<114, 105, 103, 104, 116>>
KeyTree == <<116, 114, 101, 101>>
KeyOriginalLength == <<111, 114, 105, 103, 105, 110, 97, 108, 76, 101, 110, 103, 116, 104>>
KeyIsText == <<105, 115, 84, 101, 120, 116>>
KeyBitsLength == <<98, 105, 116, 115, 76, 101, 110, 103, 116, 104>>

\* buildFrequencyTable(data, false): the Map as its entries <<byte, freq>> in
\* insertion order.
buildFrequencyTableBinary(data) == FreqFrom(data, 1, <<>>)

\* The insertion of merged into the sorted heap: before the first node whose
\* freq is not below merged.freq, at the end when there is none.
RECURSIVE HeapInsert(_, _)
HeapInsert(heap, merged) ==
  IF heap = <<>> THEN <<merged>>
  ELSE IF merged.freq <= Head(heap).freq THEN <<merged>> \o heap
  ELSE <<Head(heap)>> \o HeapInsert(Tail(heap), merged)

\* The while loop of buildHuffmanTree; heap[0] of an empty heap is undefined
\* (no node).
RECURSIVE HeapMerge(_)
HeapMerge(heap) ==
  IF Len(heap) > 1
  THEN LET left == heap[1]
           right == heap[2]
           merged == HuffmanNode(JsNull, left.freq + right.freq, left, right)
       IN HeapMerge(HeapInsert(SubSeq(heap, 3, Len(heap)), merged))
  ELSE IF Len(heap) = 0 THEN NullNode
  ELSE heap[1]

buildHuffmanTreeSorted(freqTable) ==
  HeapMerge(SortByFreq([e \in 1..Len(freqTable) |->
                          HuffmanNode(JsNumber(freqTable[e][1]), freqTable[e][2],
                                      NullNode, NullNode)]))

\* traverse(node, code) of buildCodes: the entries <<char, code>> it sets, a
\* code being a sequence of bits; code || '0' for the empty code.
RECURSIVE traverse(_, _)
traverse(node, code) ==
  IF node.char # JsNull
  THEN { <<node.char.number, IF code = <<>> THEN <<0>> ELSE code>> }
  ELSE (IF node.left = NullNode THEN {} ELSE traverse(node.left, Append(code, 0)))
         \cup (IF node.right = NullNode THEN {} ELSE traverse(node.right, Append(code, 1)))

buildCodes(root) == IF root = NullNode THEN {} ELSE traverse(root, <<>>)

\* bitsToBytes(bits): zeros appended up to a multiple of 8, then one byte per
\* 8 bits.
bitsToBytes(bits) == PackBits(bits \o Zeros((8 - (Len(bits) % 8)) % 8))

\* bytesToBits(buffer, originalBitsLength): bits.substr(0, originalBitsLength).
bytesToBits(buffer, originalBitsLength) ==
  SubSeq(UnpackBits(buffer), 1, Min(Max(originalBitsLength, 0), 8 * Len(buffer)))

RECURSIVE serializeTree(_)
serializeTree(node) ==
  IF node = NullNode THEN JsNull
  ELSE JsObject(<< <<KeyChar, node.char>>, <<KeyFreq, JsNumber(node.freq)>>,
                   <<KeyLeft, serializeTree(node.left)>>,
                   <<KeyRight, serializeTree(node.right)>> >>)

\* serialized.key: the member's value, undefined when the object has none.
Member(object, key) ==
  LET at == { m \in 1..Len(object.members) : object.members[m][1] = key }
  IN IF at = {} THEN JsUndefined
     ELSE object.members[CHOOSE m \in at : \A other \in at : other <= m][2]

\* !serialized
Falsy(value) ==
  \/ value.type \in {"null", "undefined"}
  \/ value.type = "number" /\ value.number = 0
  \/ value.type = "boolean" /\ ~value.boolean

RECURSIVE deserializeTree(_)
deserializeTree(serialized) ==
  IF Falsy(serialized) THEN NullNode
  ELSE HuffmanNode(Member(serialized, KeyChar), Member(serialized, KeyFreq),
                   deserializeTree(Member(serialized, KeyLeft)),
                   deserializeTree(Member(serialized, KeyRight)))

\* JSON.stringify(value) of numbers >= 0, booleans, null and objects of them.
RECURSIVE JSONStringify(_)
RECURSIVE JSONStringifyMembers(_, _)
JSONStringifyMembers(members, m) ==
  IF m > Len(members) THEN <<>>
  ELSE (IF m > 1 THEN <<CharComma>> ELSE <<>>)
         \o <<CharQuote>> \o members[m][1] \o <<CharQuote, CharColon>>
         \o JSONStringify(members[m][2]) \o JSONStringifyMembers(members, m + 1)

JSONStringify(value) ==
  IF value.type = "null" THEN TextNull
  ELSE IF value.type = "number" THEN DecimalDigits(value.number)
  ELSE IF value.type = "boolean" THEN (IF value.boolean THEN TextTrue ELSE TextFalse)
  ELSE <<CharLBrace>> \o JSONStringifyMembers(value.members, 1) \o <<CharRBrace>>

\* text.startsWith(word, i), i 0-based.
StartsWith(text, word, i) ==
  i + Len(word) <= Len(text) /\ SubSeq(text, i + 1, i + Len(word)) = word

\* The first 0-based position at or after i that holds a quote; the text's
\* length when there is none.
QuoteFrom(text, i) ==
  LET stops == { p \in i..(Len(text) - 1) : text[p + 1] = CharQuote }
  IN IF stops = {} THEN Len(text) ELSE CHOOSE p \in stops : \A q \in stops : p <= q

\* JSON.parse read at 0-based position i, for texts without white space,
\* escapes, arrays, signs and fractions: the value and the position after it,
\* or a SyntaxError.
JSONSyntaxError == [ok |-> FALSE, error |-> "Unexpected token in JSON"]

RECURSIVE JSONParseValue(_, _)
RECURSIVE JSONParseMembers(_, _, _)
JSONParseMembers(text, i, members) ==
  IF i >= Len(text) \/ text[i + 1] # CharQuote THEN JSONSyntaxError
  ELSE LET close == QuoteFrom(text, i + 1)
           key == SubSeq(text, i + 2, close)
       IN IF close + 1 >= Len(text) \/ text[close + 2] # CharColon THEN JSONSyntaxError
          ELSE LET parsed == JSONParseValue(text, close + 2)
               IN IF ~parsed.ok THEN parsed
                  ELSE IF parsed.i >= Len(text) THEN JSONSyntaxError
                  ELSE IF text[parsed.i + 1] = CharComma
                  THEN JSONParseMembers(text, parsed.i + 1, Append(members, <<key, parsed.value>>))
                  ELSE IF text[parsed.i + 1] = CharRBrace
                  THEN [ok |-> TRUE, value |-> JsObject(Append(members, <<key, parsed.value>>)),
                        i |-> parsed.i + 1]
                  ELSE JSONSyntaxError

JSONParseValue(text, i) ==
  IF i >= Len(text) THEN JSONSyntaxError
  ELSE IF text[i + 1] = CharLBrace
  THEN IF i + 1 < Len(text) /\ text[i + 2] = CharRBrace
       THEN [ok |-> TRUE, value |-> JsObject(<<>>), i |-> i + 2]
       ELSE JSONParseMembers(text, i + 1, <<>>)
  ELSE IF IsDigit(text[i + 1])
  THEN LET end == DigitsEnd(text, i)
       IN [ok |-> TRUE, value |-> JsNumber(ParseInt(SubSeq(text, i + 1, end))), i |-> end]
  ELSE IF StartsWith(text, TextNull, i)
  THEN [ok |-> TRUE, value |-> JsNull, i |-> i + Len(TextNull)]
  ELSE IF StartsWith(text, TextTrue, i)
  THEN [ok |-> TRUE, value |-> JsBoolean(TRUE), i |-> i + Len(TextTrue)]
  ELSE IF StartsWith(text, TextFalse, i)
  THEN [ok |-> TRUE, value |-> JsBoolean(FALSE), i |-> i + Len(TextFalse)]
  ELSE JSONSyntaxError

JSONParse(text) ==
  LET parsed == JSONParseValue(text, 0)
  IN IF parsed.ok /\ parsed.i # Len(text) THEN JSONSyntaxError ELSE parsed

\* compressHuffman(data, false): the data field of the result.
compressHuffmanJson(data) ==
  IF Len(data) = 0 THEN Return(<<>>)
  ELSE LET freqTable == buildFrequencyTableBinary(data)
           single == Len(freqTable) = 1
           tree == IF single
                   THEN HuffmanNode(JsNumber(freqTable[1][1]), freqTable[1][2], NullNode, NullNode)
                   ELSE buildHuffmanTreeSorted(freqTable)
           compressedBits == IF single THEN Zeros(Len(data))
                             ELSE EncodeBits(data, 1, buildCodes(tree))
           compressedBytes == bitsToBytes(compressedBits)
           header == JsObject(<< <<KeyTree, serializeTree(tree)>>,
                                 <<KeyOriginalLength, JsNumber(Len(data))>>,
                                 <<KeyIsText, JsBoolean(FALSE)>>,
                                 <<KeyBitsLength, JsNumber(Len(compressedBits))>> >>)
           headerBuffer == JSONStringify(header)
       IN Return(BE32Bytes(Len(headerBuffer)) \o headerBuffer \o compressedBytes)

\* The for loop of decompressHuffman over the bits from the k-th on, and the
\* "last character" step after it: the decoded chars, or the TypeError of
\* reading current.char when current is null.
RECURSIVE DecodeJsonFrom(_, _, _, _, _)
DecodeJsonFrom(root, bits, k, current, decoded) ==
  IF k > Len(bits)
  THEN Return(IF current # NullNode /\ current.char # JsNull
              THEN Append(decoded, current.char) ELSE decoded)
  ELSE IF current = NullNode
  THEN Throw("Huffman decompression failed: Cannot read properties of null")
  ELSE LET leaf == current.char # JsNull
           from == IF leaf THEN root ELSE current
           next == IF bits[k] = 0 THEN from.left ELSE from.right
       IN DecodeJsonFrom(root, bits, k + 1, next,
                         IF leaf THEN Append(decoded, current.char) ELSE decoded)

\* Buffer.from(decoded) of an array of numbers: each cut to a byte.
BufferFromChars(decoded) == [k \in 1..Len(decoded) |-> decoded[k].number % 256]

\* decompressHuffman(compressedBuffer).  readUInt32BE(0) needs 4 bytes; a
\* header size of 2^24 or more is past the end of every buffer modelled, so
\* the slices are taken to the end.
decompressHuffmanJson(compressedBuffer) ==
  IF Len(compressedBuffer) = 0 THEN Return(<<>>)
  ELSE IF Len(compressedBuffer) < 4
  THEN Throw("Huffman decompression failed: out of range")
  ELSE LET headerEnd ==
             IF compressedBuffer[1] > 0 THEN Len(compressedBuffer)
             ELSE 4 + compressedBuffer[2] * 65536 + compressedBuffer[3] * 256
                    + compressedBuffer[4]
           parsed == JSONParse(Slice(compressedBuffer, 4, headerEnd))
           compressedData == Slice(compressedBuffer, headerEnd, Len(compressedBuffer))
       IN IF ~parsed.ok \/ parsed.value.type = "null"
          THEN Throw("Huffman decompression failed: invalid header")
          ELSE LET header == parsed.value
                   field(key) == IF header.type = "object" THEN Member(header, key)
                                 ELSE JsUndefined
                   root == deserializeTree(field(KeyTree))
                   bitsLength == field(KeyBitsLength)
                   bits == bytesToBits(compressedData,
                                       IF bitsLength.type = "number" THEN bitsLength.number
                                       ELSE 8 * Len(compressedData))
                   decoded == DecodeJsonFrom(root, bits, 1, root, <<>>)
               IN IF ~decoded.ok THEN decoded
                  ELSE Return(BufferFromChars(decoded.data))

(***************************************************************************)
(* The JSON-header Huffman machine: a buffer is drawn and compressed, and  *)
(* the container decompressed.                                             *)
(***************************************************************************)
HuffmanJsonAlphabet == {0, 65, 66}

HuffmanJsonInputs == SeqsUpTo(HuffmanJsonAlphabet, MaxHuffmanLen)

InitHuffmanJson ==
  /\ codec = "huffman-json"
  /\ input \in HuffmanJsonInputs
  /\ pc = "init"
  /\ container = NotCalled
  /\ output = NotCalled
  /\ cursor = 0
  /\ treeNode = NullNode

\* compressHuffman(input, false)
CompressHuffmanJson ==
  /\ codec = "huffman-json"
  /\ pc = "init"
  /\ container' = compressHuffmanJson(input)
  /\ pc' = "compressed"
  /\ UNCHANGED <<codec, input, output, cursor, treeNode>>

\* decompressHuffman(compressHuffman(input, false).data)
DecompressHuffmanJsonContainer ==
  /\ codec = "huffman-json"
  /\ pc = "compressed"
  /\ container.ok
  /\ output' = decompressHuffmanJson(container.data)
  /\ pc' = "roundtrip"
  /\ UNCHANGED <<codec, input, container, cursor, treeNode>>

NextHuffmanJson == CompressHuffmanJson \/ DecompressHuffmanJsonContainer

SpecHuffmanJson == InitHuffmanJson /\ [][NextHuffmanJson]_vars

\* compressHuffman(x, false) of a non-empty x has run and its data has been
\* handed to decompressHuffman.
HuffmanJsonRoundTripDone ==
  codec = "huffman-json" /\ pc = "roundtrip" /\ Len(input) > 0

\* C29: for every non-empty byte buffer x compressed with isText = false,
\* buffers of N >= 2 identical bytes included,
\* decompressHuffman(compressHuffman(x, false).data) returns normally with a
\* buffer equal to x.
HuffmanJsonRoundTrip ==
  HuffmanJsonRoundTripDone => output = Return(input)

\* What the module does instead: the round trip returns x exactly when x has
\* two distinct byte values or more, or is a single byte; for N >= 2 identical
\* bytes decompressHuffman throws.
HuffmanJsonRoundTripSeveral ==
  HuffmanJsonRoundTripDone =>
    IF DistinctBytes(input) >= 2 \/ Len(input) = 1
    THEN output = Return(input)
    ELSE ~output.ok

(***************************************************************************)
(* Claims on the escape byte the RLE decoder uses.                         *)
(***************************************************************************)
\* A pass of the RLE decode loop reads the byte at the token position: when
\* it equals byte 5 of the container it opens a record (e, value, runLength)
\* of 3 bytes, which gives runLength copies of value, as many as the declared
\* length leaves room for (or ends the call when the record is malformed);
\* any other byte goes to the output as it is, and the position moves by 1.
RLETokenByHeaderEscape ==
  RLEReadsToken =>
    LET compressed == SubSeq(input, 7, Len(input))
        e == input[6]
        byte == compressed[cursor + 1]
        room == Int32BE(input[1], input[2], input[3], input[4]) - Len(output.data)
    IN IF byte = e
       THEN \/ /\ cursor + 3 <= Len(compressed)
               /\ compressed[cursor + 3] >= 1
               /\ cursor' = cursor + 3
               /\ output'.ok
               /\ \E copies \in {Min(compressed[cursor + 3], room)} :
                    output'.data = output.data \o [k \in 1..copies |-> compressed[cursor + 2]]
            \/ /\ cursor + 3 > Len(compressed) \/ compressed[cursor + 3] = 0
               /\ ~output'.ok
       ELSE /\ cursor' = cursor + 1
            /\ output' = Return(Append(output.data, byte))

\* C30: in an accepted container whose byte 5 is e, every byte equal to e at
\* a token position starts a 3-byte record (e, value, runLength), and every
\* other byte, 0xFF included when e is not 0xFF, is appended to the output as
\* a literal.
RLEHeaderEscapeHonoured == [][RLETokenByHeaderEscape]_vars

\* With the escape byte 9 in the header, the record (9, 7, 3) gave three 7s
\* and the 0xFF after it was appended as a literal.
RLEHeaderEscapeHonouredWitness ==
  /\ codec = "rle" /\ pc = "decoding"
  /\ Len(input) >= 6
  /\ input[6] = 9
  /\ cursor = 4
  /\ output = Return(<<7, 7, 7, 255>>)

====
